---- MODULE Spec2Model ----
(***************************************************************************)
(* A model of the core of rd (Calinou/rd): the seccomp-BPF filter rewriter *)
(* (src/src/seccomp_filter_rewriter.rs), the restart handling of the GDB   *)
(* server (src/src/commands/gdb_server.rs) and the scratch-memory protocol *)
(* of TaskSyscallState (src/src/record_syscall.rs).                        *)
(*                                                                         *)
(* The three subsystems do not share state; each has its own variables,    *)
(* its own next-state relation and its own specification (SpecSeccomp,     *)
(* SpecGdb, SpecScratch) over the common variable tuple.                   *)
(***************************************************************************)
EXTENDS Integers, Sequences, FiniteSets, TLC

VARIABLES
    \* ---- SeccompFilterRewriter and the task it is called for
    result_to_index,       \* HashMap<u32, u16>: verdict -> 0-based index
    index_to_result,       \* Vec<u32>
    prctl_seccomp_status,  \* per task: 0, or 2 once a filter is active
    seccomp_pc,            \* "idle", "entered", "done", "aborted" (fatal assert)
    sc_regs,               \* registers of the task in the seccomp syscall
    sc_mem,                \* what the tracee memory at arg3 holds
    remote_syscall,        \* the syscall executed remotely in the tracee
    installed_prog,        \* the filter program written for that syscall
    installed_rets,        \* every <<verdict, rewritten k>> handed to the kernel
    registration,          \* lines 146-156 alone: the table length found, the
                           \* index and the k given to a new verdict
    \* ---- GdbServer and its ReplayTimeline
    timeline_pos,                 \* ReplayTimeline: the frame about to be replayed
    breakpoints,                  \* ReplayTimeline: registered breakpoints
    watchpoints,                  \* ReplayTimeline: registered watchpoints
    explicit_pins,                \* ReplayTimeline: pin count of every mark
    reverse_execution_barrier,    \* ReplayTimeline: barrier event
    target,                       \* GdbServer::target
    debuggee_tguid,
    last_continue_tuid,
    last_query_tuid,
    final_event,
    in_debuggee_end_state,
    stop_replaying_to_target,
    interrupt_pending,
    debugger_restart_checkpoint,  \* Option<Checkpoint>: <<>> or <<c>>
    checkpoints,                  \* HashMap<u64, Checkpoint>
    keep_listening,               \* ConnectionFlags::keep_listening
    gdb_pc,                       \* where serve_replay is
    gdb_req,                      \* the DREQ_RESTART handled last, if any
    gdb_reply,                    \* what was sent to the client for it
    gdb_stop,                     \* Option: the notify_stop the last resume sent
    gdb_data,                     \* Option: the answer to the last query
    flags,                        \* ConnectionFlags but keep_listening
    serve_io,                     \* the socket serve_replay opened and its params pipe
    \* ---- TaskSyscallState and the task whose syscall it prepares
    task_mem,                 \* tracee memory, one byte per address
    regs,                     \* RecordTask: the task's registers
    scratch_ptr,              \* RecordTask::scratch_ptr (0 when there is none)
    param_list,               \* Vec<MemoryParam>
    scratch,                  \* where the next scratch slot is allocated
    syscall_entry_registers,
    should_emulate_result,
    emulated_result,
    switchable,
    write_back,
    preparation_done,
    scratch_enabled,
    saved_data,               \* Vec<u8>
    recorded,                 \* what record_local/record_remote wrote to the trace
    returned,                 \* RemotePtr the pre-handler's last registration returned
    expect_errno,             \* TaskSyscallState::expect_errno
    dumpable,                 \* ThreadGroup::dumpable of the task's thread group
    tsc_mode,                 \* RecordTask::tsc_mode
    syscall_pc                \* "preparing", "prepared", "exited", "processed",
                              \* "aborted", "panicked" (failed assertion)

seccompVars == <<result_to_index, index_to_result, prctl_seccomp_status,
                 seccomp_pc, sc_regs, sc_mem, remote_syscall, installed_prog,
                 installed_rets, registration>>

gdbVars == <<timeline_pos, breakpoints, watchpoints, explicit_pins,
             reverse_execution_barrier, target, debuggee_tguid, last_continue_tuid,
             last_query_tuid, final_event, in_debuggee_end_state,
             stop_replaying_to_target, interrupt_pending, debugger_restart_checkpoint,
             checkpoints, keep_listening, gdb_pc, gdb_req, gdb_reply,
             gdb_stop, gdb_data, flags, serve_io>>

scratchVars == <<task_mem, regs, scratch_ptr, param_list, scratch,
                 syscall_entry_registers, should_emulate_result, emulated_result,
                 switchable, write_back, preparation_done, scratch_enabled,
                 saved_data, recorded, returned, expect_errno, dumpable, tsc_mode,
                 syscall_pc>>

vars == <<seccompVars, gdbVars, scratchVars>>

None == "none"

(***************************************************************************)
(* Bit arithmetic on unsigned values, as the code's & and | compute it.    *)
(***************************************************************************)
RECURSIVE BitAnd(_, _)
BitAnd(a, b) ==
    IF a = 0 \/ b = 0 THEN 0
    ELSE (a % 2) * (b % 2) + 2 * BitAnd(a \div 2, b \div 2)

RECURSIVE BitOr(_, _)
BitOr(a, b) ==
    IF a = 0 THEN b
    ELSE IF b = 0 THEN a
    ELSE (IF a % 2 = 1 \/ b % 2 = 1 THEN 1 ELSE 0) + 2 * BitOr(a \div 2, b \div 2)

(***************************************************************************)
(* Kernel constants used by the rewriter.                                  *)
(***************************************************************************)
BASE_CUSTOM_DATA == 256
SECCOMP_RET_ALLOW == 2147418112
SECCOMP_RET_TRACE == 2146435072
SECCOMP_RET_DATA == 65535
SECCOMP_FILTER_FLAG_TSYNC == 1
BPF_RET == 6
BPF_K == 0
BPF_LD_W_ABS == 32
BPF_JEQ_K == 21
BPF_RET_A == 22

BPF_CLASS(code) == BitAnd(code, 7)

\* A BPF_RVAL that takes every return for a constant return.
BPF_RVAL_AlwaysK(code) == BPF_K

BPF_RVAL(code) == BitAnd(code, 24)

\* Verdicts a user filter returns besides ALLOW: KILL (0) and the 0x30000
\* of the seccomp rewrite scenario.
SECCOMP_RET_KILL == 0
RET_0x30000 == 196608

Verdicts == {SECCOMP_RET_KILL, RET_0x30000}

Insn(code, jt, jf, k) == [code |-> code, jt |-> jt, jf |-> jf, k |-> k]

\* offsetof(seccomp_data, nr) and offsetof(seccomp_data, instruction_pointer)
SECCOMP_DATA_NR == 0
SECCOMP_DATA_IP == 8

MaxProgLen == 2

RECURSIVE SeqsUpTo(_, _)
SeqsUpTo(S, n) ==
    IF n = 0 THEN {<<>>}
    ELSE LET shorter == SeqsUpTo(S, n - 1)
         IN shorter \cup {Append(s, x) : s \in {t \in shorter : Len(t) = n - 1}, x \in S}

\* Longer programs: "fail syscall 0 with 0x30000, allow the rest" and the
\* same with the branches swapped.
BranchingProgs ==
    {<< Insn(BPF_LD_W_ABS, 0, 0, SECCOMP_DATA_NR),
        Insn(BPF_JEQ_K, 0, 1, 0),
        Insn(BPF_RET + BPF_K, 0, 0, RET_0x30000),
        Insn(BPF_RET + BPF_K, 0, 0, SECCOMP_RET_ALLOW) >>,
     << Insn(BPF_LD_W_ABS, 0, 0, SECCOMP_DATA_NR),
        Insn(BPF_JEQ_K, 1, 0, 0),
        Insn(BPF_RET + BPF_K, 0, 0, SECCOMP_RET_KILL),
        Insn(BPF_RET + BPF_K, 0, 0, SECCOMP_RET_ALLOW) >>}

\* The user programs: every program of up to MaxProgLen instructions built
\* from constant returns and a conditional jump whose k is the same number
\* as a non-allow verdict, the branching programs, and programs returning
\* the accumulator.
UserProgs ==
    LET UserInsns ==
            {Insn(BPF_RET + BPF_K, 0, 0, v) : v \in Verdicts \cup {SECCOMP_RET_ALLOW}}
            \cup {Insn(BPF_JEQ_K, 0, 1, SECCOMP_RET_KILL)}
        RegisterReturnProgs ==
            {<< Insn(BPF_RET_A, 0, 0, 0) >>,
             << Insn(BPF_RET + BPF_K, 0, 0, SECCOMP_RET_KILL), Insn(BPF_RET_A, 0, 0, 0) >>}
    IN (SeqsUpTo(UserInsns, MaxProgLen) \ {<<>>}) \cup BranchingProgs
       \cup RegisterReturnProgs

(***************************************************************************)
(* Tasks of the recording session and their thread groups.                 *)
(***************************************************************************)
RecTasks == {"t1", "t2", "t3"}

ThreadGroupOf(t) == IF t = "t3" THEN "tg2" ELSE "tg1"

\* Errors the kernel answers a filter install with.
EFAULT == 14
EINVAL == 22
ENOSYS == 38

SYS_prctl == 157
SYS_seccomp == 317
PR_SET_SECCOMP == 22
SECCOMP_SET_MODE_FILTER == 1
SECCOMP_MODE_FILTER == 2

syscall_failed(ret) == ret < 0 /\ ret > -4096

(***************************************************************************)
(* SeccompFilterRewriter::map_filter_data_to_real_result                   *)
(***************************************************************************)
\* result is what the call writes to *result: nothing, or the verdict.
map_filter_data_to_real_result(value) ==
    IF value < BASE_CUSTOM_DATA
    THEN [status |-> "false", result |-> <<>>]
    ELSE IF ~(value < BASE_CUSTOM_DATA + Len(index_to_result))
         THEN [status |-> "assert", result |-> <<>>]
         ELSE [status |-> "true",
               result |-> <<index_to_result[value - BASE_CUSTOM_DATA + 1]>>]

(***************************************************************************)
(* The rd page's syscall entry points and SeccompFilter, which live in     *)
(* address_space.rs and seccomp_bpf.rs: each entry has a distinct exit     *)
(* point, and allow_syscalls_from_callsite appends a rule that loads the   *)
(* instruction pointer and returns ALLOW when it equals the callsite.      *)
(***************************************************************************)
rd_page_syscalls ==
    << [traced |-> "Traced",   privileged |-> "Unprivileged", enabled |-> "RecordingAndReplay"],
       [traced |-> "Traced",   privileged |-> "Privileged",   enabled |-> "RecordingAndReplay"],
       [traced |-> "Untraced", privileged |-> "Unprivileged", enabled |-> "RecordingAndReplay"],
       [traced |-> "Untraced", privileged |-> "Unprivileged", enabled |-> "ReplayOnly"],
       [traced |-> "Untraced", privileged |-> "Unprivileged", enabled |-> "RecordingOnly"],
       [traced |-> "Untraced", privileged |-> "Privileged",   enabled |-> "RecordingAndReplay"],
       [traced |-> "Untraced", privileged |-> "Privileged",   enabled |-> "ReplayOnly"],
       [traced |-> "Untraced", privileged |-> "Privileged",   enabled |-> "RecordingOnly"] >>

\* RD_PAGE_ADDR is 0x70000000, a stub takes RD_PAGE_SYSCALL_STUB_SIZE = 3
\* bytes and its syscall instruction ends RD_PAGE_SYSCALL_INSTRUCTION_END = 2
\* bytes into it.
rd_page_syscall_exit_point(traced, privileged, enabled) ==
    LET i == CHOOSE j \in 1..Len(rd_page_syscalls) :
                 rd_page_syscalls[j] =
                     [traced |-> traced, privileged |-> privileged, enabled |-> enabled]
    IN 1879048192 + 3 * (i - 1) + 2

allow_syscalls_from_callsite(filters, ip) ==
    filters \o << Insn(BPF_LD_W_ABS, 0, 0, SECCOMP_DATA_IP),
                  Insn(BPF_JEQ_K, 0, 1, ip),
                  Insn(BPF_RET + BPF_K, 0, 0, SECCOMP_RET_ALLOW) >>

(***************************************************************************)
(* install_patched_seccomp_filter_arch, lines 137-159: the loop that turns *)
(* every non-allow constant return into a TRACE return.                    *)
(***************************************************************************)
\* A rewriter that patches every return, ALLOW included.
IsPatchedReturn_AnyReturn(u) == BPF_CLASS(u.code) = BPF_RET

\* line 138 and 145: the instruction is a return of something else than ALLOW
IsPatchedReturn(u) == BPF_CLASS(u.code) = BPF_RET /\ u.k # SECCOMP_RET_ALLOW

\* A rewriter that gives every patched return a fresh index.
NeedsNewIndex_Always(r2i, k) == TRUE

\* A rewriter that registers verdicts without looking at the room left.
TableFull_Never(len) == FALSE

\* lines 147-152: no data value is left for one more verdict
TableFull(len) == ~(BASE_CUSTOM_DATA + len < SECCOMP_RET_DATA)

\* line 146: the verdict has no index yet
NeedsNewIndex(r2i, k) == k \notin DOMAIN r2i

\* A rewriter that forgets to offset the index by BASE_CUSTOM_DATA.
TraceReturnFor_NoBase(idx) == BitOr(idx, SECCOMP_RET_TRACE)

\* line 156: the k written in place of a verdict whose index is idx
TraceReturnFor(idx) == BitOr(BASE_CUSTOM_DATA + idx, SECCOMP_RET_TRACE)

\* lines 137-159, from instruction j on.  acc is the status, the two maps
\* and the code patched so far.
RECURSIVE PatchFrom(_, _, _)
PatchFrom(acc, code, j) ==
    IF j > Len(code) \/ acc.status # "ok" THEN acc
    ELSE LET u == code[j]
             fresh == NeedsNewIndex(acc.r2i, u.k)
             r2i == IF fresh THEN (u.k :> Len(acc.i2r)) @@ acc.r2i ELSE acc.r2i
             i2r == IF fresh THEN Append(acc.i2r, u.k) ELSE acc.i2r
         IN PatchFrom(
                IF BPF_CLASS(u.code) # BPF_RET
                THEN [acc EXCEPT !.code = Append(@, u)]
                ELSE IF BPF_RVAL(u.code) # BPF_K
                THEN [acc EXCEPT !.status = "assert_rval"]
                ELSE IF ~IsPatchedReturn(u)
                THEN [acc EXCEPT !.code = Append(@, u)]
                ELSE IF fresh /\ TableFull(Len(acc.i2r))
                THEN [acc EXCEPT !.status = "assert_full"]
                ELSE [status |-> "ok", r2i |-> r2i, i2r |-> i2r,
                      code |-> Append(acc.code,
                                      [u EXCEPT !.k = TraceReturnFor(r2i[u.k])])],
                code, j + 1)

\* A rewriter that skips the entries not enabled while recording.
AllowsCallsite_EnabledOnly(e) ==
    e.privileged = "Privileged" /\ e.enabled # "ReplayOnly"

\* lines 161-167: the rules prepended for the rd page's callsites
AllowsCallsite(e) == e.privileged = "Privileged"

RECURSIVE PrologueFrom(_, _)
PrologueFrom(f, j) ==
    IF j > Len(rd_page_syscalls) THEN f
    ELSE LET e == rd_page_syscalls[j]
         IN PrologueFrom(
                IF AllowsCallsite(e)
                THEN allow_syscalls_from_callsite(
                         f, rd_page_syscall_exit_point(e.traced, e.privileged, e.enabled))
                ELSE f,
                j + 1)


(***************************************************************************)
(* The kernel's evaluation of a seccomp-BPF program on a syscall, for the  *)
(* instructions used here.  Jumps only go forward.  The result is -1, no   *)
(* verdict, for a program that runs off its end (the kernel refuses to     *)
(* install it) and for one that tests or returns the accumulator before    *)
(* loading it: filters are taken to load the seccomp_data they test.  The   *)
(* accumulator is -1 until it is loaded.                                    *)
(***************************************************************************)
RECURSIVE RunBpf(_, _, _, _)
RunBpf(prog, pc, A, data) ==
    IF pc > Len(prog) THEN -1
    ELSE LET u == prog[pc]
         IN IF BPF_CLASS(u.code) = BPF_RET
            THEN (IF BPF_RVAL(u.code) = BPF_K THEN u.k ELSE A)
            ELSE IF u.code = BPF_JEQ_K /\ A = -1
            THEN -1
            ELSE IF u.code = BPF_LD_W_ABS
            THEN RunBpf(prog, pc + 1,
                        IF u.k = SECCOMP_DATA_NR THEN data.nr
                        ELSE IF u.k = SECCOMP_DATA_IP THEN data.ip ELSE 0,
                        data)
            ELSE RunBpf(prog, pc + 1 + (IF A = u.k THEN u.jt ELSE u.jf), A, data)

FilterResult(prog, data) == RunBpf(prog, 1, -1, data)

USER_IP == 4194304

\* A syscall number and an instruction pointer: a callsite of the rd page or
\* an address of the user's code.
SeccompInputs ==
    [nr : {0, 1},
     ip : {rd_page_syscall_exit_point(e.traced, e.privileged, e.enabled) :
              e \in {rd_page_syscalls[j] : j \in 1..Len(rd_page_syscalls)}}
          \cup {USER_IP}]

(***************************************************************************)
(* The seccomp rewriter's state machine.                                   *)
(***************************************************************************)
\* Outside a filter-installing syscall: no task's registers, no program in
\* tracee memory, no remote call, and no sock_fprog (its len and its filter
\* array) written for one.
Idle ==
    [sc_regs |-> [task |-> None, original_syscallno |-> 0, arg1 |-> 0, arg2 |-> 0,
                  arg3 |-> 0, syscall_result |-> 0],
     sc_mem |-> [hdr_ok |-> FALSE, code_ok |-> FALSE, prog |-> <<>>],
     remote_syscall |-> [no |-> 0, arg1 |-> 0, arg2 |-> 0, arg3 |-> 0],
     installed_prog |-> [len |-> 0, filter |-> <<>>]]

\* Address of the user's sock_fprog, and of the patched one in the
\* temporary region AutoRestoreMem reserves in the tracee.
USER_PROG_PTR == 4096
REMOTE_PROG_PTR == 8192

InitSeccomp ==
    /\ result_to_index = <<>>
    /\ index_to_result = <<>>
    /\ prctl_seccomp_status = [t \in RecTasks |-> 0]
    /\ seccomp_pc = "idle"
    /\ sc_regs = Idle.sc_regs
    /\ sc_mem = Idle.sc_mem
    /\ remote_syscall = Idle.remote_syscall
    /\ installed_prog = Idle.installed_prog
    /\ installed_rets = {}
    /\ registration = [len |-> 0, status |-> "none", index |-> 0, k |-> 0]

\* What the tracee memory at arg3 can hold: an unreadable sock_fprog, a
\* readable one whose filter array is unreadable, or a readable program.
TraceeProgMem ==
    {[hdr_ok |-> FALSE, code_ok |-> FALSE, prog |-> <<>>],
     [hdr_ok |-> TRUE, code_ok |-> FALSE, prog |-> <<>>]}
    \cup {[hdr_ok |-> TRUE, code_ok |-> TRUE, prog |-> p] : p \in UserProgs}

\* The calls install_patched_seccomp_filter is set up for:
\* prctl(PR_SET_SECCOMP, SECCOMP_MODE_FILTER, prog) and
\* seccomp(SECCOMP_SET_MODE_FILTER, flags, prog).
SeccompCalls ==
    {[no |-> SYS_prctl, arg1 |-> PR_SET_SECCOMP, arg2 |-> SECCOMP_MODE_FILTER],
     [no |-> SYS_seccomp, arg1 |-> SECCOMP_SET_MODE_FILTER, arg2 |-> 0],
     [no |-> SYS_seccomp, arg1 |-> SECCOMP_SET_MODE_FILTER,
      arg2 |-> SECCOMP_FILTER_FLAG_TSYNC]}

\* A task enters a filter-installing syscall.
SeccompSyscallEntry(t, call, mem) ==
    /\ seccomp_pc = "idle"
    /\ seccomp_pc' = "entered"
    /\ sc_regs' = [task |-> t, original_syscallno |-> call.no, arg1 |-> call.arg1,
                   arg2 |-> call.arg2, arg3 |-> USER_PROG_PTR, syscall_result |-> 0]
    /\ sc_mem' = mem
    /\ remote_syscall' = Idle.remote_syscall
    /\ installed_prog' = Idle.installed_prog
    /\ UNCHANGED <<result_to_index, index_to_result, prctl_seccomp_status,
                   installed_rets>>
    /\ UNCHANGED <<registration, gdbVars, scratchVars>>

\* A pass-through that hands the kernel the rewriter's own buffer.
pass_through_seccomp_filter_RemoteProg(ret) ==
    /\ remote_syscall' = [no |-> sc_regs.original_syscallno, arg1 |-> sc_regs.arg1,
                          arg2 |-> sc_regs.arg2, arg3 |-> REMOTE_PROG_PTR]
    /\ sc_regs' = [sc_regs EXCEPT !.syscall_result = ret]
    /\ seccomp_pc' = "done"
    /\ UNCHANGED <<result_to_index, index_to_result, prctl_seccomp_status, sc_mem,
                   installed_prog, installed_rets>>

\* pass_through_seccomp_filter: re-issue the syscall as it is; the kernel
\* cannot read the program either and fails the call.
pass_through_seccomp_filter(ret) ==
    /\ remote_syscall' = [no |-> sc_regs.original_syscallno, arg1 |-> sc_regs.arg1,
                          arg2 |-> sc_regs.arg2, arg3 |-> sc_regs.arg3]
    /\ sc_regs' = [sc_regs EXCEPT !.syscall_result = ret]
    /\ seccomp_pc' = IF syscall_failed(ret) THEN "done" ELSE "aborted"
    /\ UNCHANGED <<result_to_index, index_to_result, prctl_seccomp_status, sc_mem,
                   installed_prog, installed_rets>>

\* An install that marks the calling task only.
SeccompStatusAfter_CallerOnly(ret) ==
    IF syscall_failed(ret) THEN prctl_seccomp_status
    ELSE [prctl_seccomp_status EXCEPT ![sc_regs.task] = 2]

\* lines 196-210: who becomes seccomp-active after the remote call returned ret
SeccompStatusAfter(ret) ==
    IF syscall_failed(ret) THEN prctl_seccomp_status
    ELSE [tt \in RecTasks |->
            IF tt = sc_regs.task
               \/ (/\ sc_regs.original_syscallno = SYS_seccomp    \* is_seccomp_syscall
                   /\ BitAnd(sc_regs.arg2, SECCOMP_FILTER_FLAG_TSYNC) # 0
                   /\ ThreadGroupOf(tt) = ThreadGroupOf(sc_regs.task))
            THEN 2
            ELSE prctl_seccomp_status[tt]]

\* installed_rets collects the <<verdict, rewritten k>> pairs of every
\* patched program.
install_patched_seccomp_filter_arch(ret) ==
    IF ~sc_mem.hdr_ok \/ ~sc_mem.code_ok
    THEN \E e \in {EFAULT, ENOSYS} : ret = -e /\ pass_through_seccomp_filter(ret)
    ELSE LET patched == PatchFrom([status |-> "ok", r2i |-> result_to_index,
                                   i2r |-> index_to_result, code |-> <<>>],
                                  sc_mem.prog, 1)
             filters == PrologueFrom(<<>>, 1) \o patched.code
         IN IF patched.status # "ok"
            THEN /\ ret = 0
                 /\ seccomp_pc' = "aborted"
                 /\ result_to_index' = patched.r2i
                 /\ index_to_result' = patched.i2r
                 /\ UNCHANGED <<prctl_seccomp_status, sc_regs, sc_mem, remote_syscall,
                                installed_prog, installed_rets>>
            ELSE /\ ret \in {0, -EINVAL}
                 /\ result_to_index' = patched.r2i
                 /\ index_to_result' = patched.i2r
                 /\ installed_prog' = [len |-> Len(filters), filter |-> filters]
                 /\ remote_syscall' = [no |-> sc_regs.original_syscallno,
                                       arg1 |-> sc_regs.arg1, arg2 |-> sc_regs.arg2,
                                       arg3 |-> REMOTE_PROG_PTR]
                 /\ sc_regs' = [sc_regs EXCEPT !.syscall_result = ret]
                 /\ prctl_seccomp_status' = SeccompStatusAfter(ret)
                 /\ installed_rets' =
                        installed_rets
                        \cup {<<sc_mem.prog[j].k, patched.code[j].k>> :
                                 j \in {i \in 1..Len(sc_mem.prog) :
                                           IsPatchedReturn(sc_mem.prog[i])}}
                 /\ seccomp_pc' = "done"
                 /\ UNCHANGED sc_mem

\* SeccompFilterRewriter::install_patched_seccomp_filter, called at the
\* exit of the syscall; ret is what the kernel answers the remote call.
InstallPatchedSeccompFilter ==
    /\ seccomp_pc = "entered"
    /\ \E ret \in {0, -EINVAL, -EFAULT, -ENOSYS} :
           install_patched_seccomp_filter_arch(ret)
    /\ UNCHANGED <<registration, gdbVars, scratchVars>>

\* The task goes back to user space.
SeccompSyscallExit ==
    /\ seccomp_pc = "done"
    /\ seccomp_pc' = "idle"
    /\ sc_regs' = Idle.sc_regs
    /\ sc_mem' = Idle.sc_mem
    /\ remote_syscall' = Idle.remote_syscall
    /\ installed_prog' = Idle.installed_prog
    /\ UNCHANGED <<result_to_index, index_to_result, prctl_seccomp_status,
                   installed_rets>>
    /\ UNCHANGED <<registration, gdbVars, scratchVars>>

(***************************************************************************)
(* Lines 146-156 on their own.  What they do with a verdict that has no    *)
(* index depends on index_to_result.len() alone, and tables of tens of     *)
(* thousands of verdicts are out of reach of the installs above: here only *)
(* the length of the tables is kept, and one new verdict after the other   *)
(* is registered until the assertion of line 147 fails.                    *)
(***************************************************************************)
RegisterNewVerdict ==
    /\ registration.status # "assert_full"
    /\ registration' =
           IF TableFull(registration.len)
           THEN [registration EXCEPT !.status = "assert_full"]
           ELSE [len |-> registration.len + 1, status |-> "ok",
                 index |-> registration.len,
                 k |-> TraceReturnFor(registration.len)]
    /\ UNCHANGED <<result_to_index, index_to_result, prctl_seccomp_status, seccomp_pc,
                   sc_regs, sc_mem, remote_syscall, installed_prog, installed_rets>>
    /\ UNCHANGED <<gdbVars, scratchVars>>

NextSeccomp ==
    \/ \E t \in RecTasks, call \in SeccompCalls, mem \in TraceeProgMem :
           SeccompSyscallEntry(t, call, mem)
    \/ InstallPatchedSeccompFilter
    \/ SeccompSyscallExit

(***************************************************************************)
(*                               GdbServer                                 *)
(*                                                                         *)
(* commands/gdb_server.rs.  The server drives a ReplayTimeline over a      *)
(* recorded trace.  ReplaySession, ReplayTimeline and the body of          *)
(* debug_one_step are not part of these sources: the trace below and the   *)
(* timeline operations are modelled from their documented behaviour.       *)
(***************************************************************************)
\* ---- bounds
MaxCheckpoints == 1     \* ids the checkpoint command hands out
MaxPins == 2            \* cap on the pin count of one mark

\* u64::MAX; every event of the model is far below it.
FrameTimeMax == 2147483647
RdPid == 70000          \* getpid() of the replaying rd
LOCALHOST_ADDR == <<"1", "2", "7", ".", "0", ".", "0", ".", "1">>

(***************************************************************************)
(* The recorded trace.  Position p is the state in which frame p is about  *)
(* to be replayed; its frame time is p.  Replaying frame p runs task       *)
(* Trace[p].task; exit tells whether that step is the exit of a thread     *)
(* and whether it is the last thread of its thread group; step tells       *)
(* whether it is the exit of a successful execve.                          *)
(***************************************************************************)
Frame(task, tgid, initial_exec, execed, can_checkpoint, in_exec, ip, writes, exit, step) ==
    [task |-> task, tgid |-> tgid, done_initial_exec |-> initial_exec,
     execed |-> execed, can_add_checkpoint |-> can_checkpoint,
     in_execution |-> in_exec, ip |-> ip, writes |-> writes, exit |-> exit,
     step |-> step]

BREAK_ADDR == 4198400
WATCH_ADDR == 6295552

Trace ==
    << Frame("t1", "tg1", FALSE, FALSE, TRUE,  FALSE, 0, 0, "none", "execve_exit"),
       Frame("t3", "tg2", TRUE,  TRUE,  TRUE,  FALSE, 0, 0, "none", "execve_exit"),
       Frame("t1", "tg1", TRUE,  TRUE,  TRUE,  FALSE, BREAK_ADDR, WATCH_ADDR,
             "last_thread", "other"),
       Frame("t1", "tg1", TRUE,  TRUE,  FALSE, FALSE, 0, 0, "none", "other") >>

TraceEnd == Len(Trace)
Positions == 1..TraceEnd

\* vm().first_run_event() of a thread group's address space
first_run_event(tgid) == IF tgid = "tg1" THEN 2 ELSE 3

NoBreakStatus ==
    [task |-> None, tgid |-> None, task_exit |-> FALSE, last_thread |-> FALSE,
     breakpoint_hit |-> FALSE, singlestep_complete |-> FALSE, watchpoints_hit |-> <<>>,
     signal |-> <<>>]

\* ReplayTimeline::replay_step_forward: replay one frame.
replay_step_forward(pos, bps, wps) ==
    IF pos >= TraceEnd
    THEN [status |-> "ReplayExited", pos |-> pos, break_status |-> NoBreakStatus]
    ELSE [status |-> "ReplayContinue", pos |-> pos + 1,
          break_status |->
              [task |-> Trace[pos].task, tgid |-> Trace[pos].tgid,
               task_exit |-> Trace[pos].exit # "none",
               last_thread |-> Trace[pos].exit = "last_thread",
               breakpoint_hit |-> Trace[pos + 1].ip \in bps,
               singlestep_complete |-> TRUE,
               watchpoints_hit |-> IF Trace[pos].writes \in wps
                                   THEN <<Trace[pos].writes>> ELSE <<>>,
               signal |-> <<>>]]

\* ReplayTimeline::reverse_singlestep: undo one frame, never below the barrier.
reverse_singlestep(pos, barrier, bps, wps) ==
    IF pos <= barrier \/ pos <= 1
    THEN [status |-> "ReplayContinue", pos |-> pos,
          break_status |-> [NoBreakStatus EXCEPT !.task = Trace[pos].task,
                                                  !.tgid = Trace[pos].tgid,
                                                  !.last_thread = TRUE,
                                                  !.task_exit = TRUE]]
    ELSE [status |-> "ReplayContinue", pos |-> pos - 1,
          break_status |->
              [task |-> Trace[pos - 1].task, tgid |-> Trace[pos - 1].tgid,
               task_exit |-> FALSE, last_thread |-> FALSE,
               breakpoint_hit |-> Trace[pos - 1].ip \in bps,
               singlestep_complete |-> TRUE,
               watchpoints_hit |-> IF Trace[pos - 1].writes \in wps
                                   THEN <<Trace[pos - 1].writes>> ELSE <<>>,
               signal |-> <<>>]]

\* is_last_thread_exit, lines 1060-1071: last_thread tells whether the task
\* set of the task's thread group has one member
is_last_thread_exit(break_status) ==
    break_status.task_exit /\ break_status.last_thread

\* ReplayTimeline::seek_to_before_event: a state before the event's frame.
seek_to_before_event(event) ==
    IF event <= 1 THEN 1
    ELSE IF event > TraceEnd THEN TraceEnd - 1 ELSE event - 1

\* ReplayTimeline::seek_to_mark and mark(): a mark is a position.
seek_to_mark(mark) == mark

mark(pos) == pos

can_add_checkpoint(pos) == Trace[pos].can_add_checkpoint

\* ReplayTimeline::add_explicit_checkpoint / remove_explicit_checkpoint:
\* reference-counted pins.
add_explicit_checkpoint(pins, pos) == [pins EXCEPT ![pos] = @ + 1]

remove_explicit_checkpoint(pins, m) ==
    [pins EXCEPT ![m] = IF @ > 0 THEN @ - 1 ELSE 0]

\* Option<T>
Some(x) == <<x>>

\* Checkpoint::new, lines 126-145
Checkpoint_new(pins, pos, tuid, e) ==
    [pins |-> IF e = "Explicit" THEN add_explicit_checkpoint(pins, pos) ELSE pins,
     checkpoint |-> [mark |-> mark(pos), last_continue_tuid |-> tuid,
                     is_explicit |-> e]]

(***************************************************************************)
(* The server's fields as one record, so that a handler can be written as  *)
(* the composition of the functions it calls.                              *)
(***************************************************************************)
Cur ==
    [pos |-> timeline_pos, breakpoints |-> breakpoints, watchpoints |-> watchpoints,
     pins |-> explicit_pins, target |-> target, debuggee_tguid |-> debuggee_tguid,
     last_continue_tuid |-> last_continue_tuid, last_query_tuid |-> last_query_tuid,
     final_event |-> final_event,
     in_debuggee_end_state |-> in_debuggee_end_state,
     stop_replaying_to_target |-> stop_replaying_to_target,
     interrupt_pending |-> interrupt_pending,
     debugger_restart_checkpoint |-> debugger_restart_checkpoint,
     checkpoints |-> checkpoints, reply |-> "none", stop |-> <<>>, status |-> "ok"]

Commit(g) ==
    /\ timeline_pos' = g.pos
    /\ breakpoints' = g.breakpoints
    /\ watchpoints' = g.watchpoints
    /\ explicit_pins' = g.pins
    /\ target' = g.target
    /\ debuggee_tguid' = g.debuggee_tguid
    /\ last_continue_tuid' = g.last_continue_tuid
    /\ last_query_tuid' = g.last_query_tuid
    /\ final_event' = g.final_event
    /\ in_debuggee_end_state' = g.in_debuggee_end_state
    /\ stop_replaying_to_target' = g.stop_replaying_to_target
    /\ interrupt_pending' = g.interrupt_pending
    /\ debugger_restart_checkpoint' = g.debugger_restart_checkpoint
    /\ checkpoints' = g.checkpoints

PinsWithinBound(g) == \A p \in Positions : g.pins[p] <= MaxPins

\* An at_target that lets an interrupt win over every other test.
at_target_in_InterruptFirst(session, time, tgt, stop) ==
    \/ stop
    \/ /\ session.done_initial_exec
       /\ session.task # None
       /\ session.can_add_checkpoint
       /\ time > tgt.event
       /\ (tgt.pid = <<>> \/ session.tgid = tgt.pid[1])
       /\ (~tgt.require_exec \/ session.execed)
       /\ ~session.in_execution

\* at_target, lines 503-543, of a session state whose current trace frame
\* has the given time
at_target_in(session, time, tgt, stop) ==
    IF ~session.done_initial_exec THEN FALSE
    ELSE IF session.task = None THEN FALSE
    ELSE IF ~session.can_add_checkpoint THEN FALSE
    ELSE IF stop THEN TRUE
    ELSE /\ time > tgt.event
         /\ (tgt.pid = <<>> \/ session.tgid = tgt.pid[1])
         /\ (~tgt.require_exec \/ session.execed)
         /\ ~session.in_execution

\* A server that takes every state for its target.
at_target_Always(g) == TRUE

at_target(g) == at_target_in(Trace[g.pos], g.pos, g.target, g.stop_replaying_to_target)

\* An activate_debugger that takes the thread group it is activated in for
\* the debuggee.
activate_debugger_TakesDebuggee(g) ==
    LET t == Trace[g.pos]
        e == IF can_add_checkpoint(g.pos) THEN "Explicit" ELSE "NotExplicit"
        made == Checkpoint_new(g.pins, g.pos, t.task, e)
    IN [g EXCEPT !.target = [pid |-> Some(t.tgid), require_exec |-> FALSE,
                             event |-> g.pos],
                 !.debuggee_tguid = t.tgid,
                 !.last_query_tuid = t.task,
                 !.last_continue_tuid = t.task,
                 !.pins = made.pins,
                 !.debugger_restart_checkpoint = Some(made.checkpoint)]

\* An activate_debugger that pins its checkpoint wherever it is.
activate_debugger_AlwaysExplicit(g) ==
    LET t == Trace[g.pos]
        made == Checkpoint_new(g.pins, g.pos, t.task, "Explicit")
    IN [g EXCEPT !.target = [pid |-> Some(t.tgid), require_exec |-> FALSE,
                             event |-> g.pos],
                 !.last_query_tuid = t.task,
                 !.last_continue_tuid = t.task,
                 !.pins = made.pins,
                 !.debugger_restart_checkpoint = Some(made.checkpoint)]

\* activate_debugger, lines 545-615
activate_debugger(g) ==
    LET t == Trace[g.pos]
        event_now == g.pos
        e == IF can_add_checkpoint(g.pos) THEN "Explicit" ELSE "NotExplicit"
        made == Checkpoint_new(g.pins, g.pos, t.task, e)
    IN [g EXCEPT !.target = [pid |-> Some(t.tgid), require_exec |-> FALSE,
                             event |-> event_now],
                 !.last_query_tuid = t.task,
                 !.last_continue_tuid = t.task,
                 !.pins = made.pins,
                 !.debugger_restart_checkpoint = Some(made.checkpoint)]

(***************************************************************************)
(* restart_session, lines 617-706                                          *)
(***************************************************************************)
\* lines 625-645: the checkpoint to restore, if the request names one
CheckpointToRestore(g, restart) ==
    IF restart.type_ = "RestartFromCheckpoint"
    THEN (IF restart.param \in DOMAIN g.checkpoints
          THEN Some(g.checkpoints[restart.param]) ELSE <<>>)
    ELSE IF restart.type_ = "RestartFromPrevious"
    THEN g.debugger_restart_checkpoint
    ELSE <<>>

\* lines 627-638: the request names a checkpoint the table does not hold
RestartFails(g, restart) ==
    restart.type_ = "RestartFromCheckpoint" /\ restart.param \notin DOMAIN g.checkpoints

\* A restart that forgets to ask for the first continue to be interrupted.
InterruptPendingAfterRestart_Unset(g) == g.interrupt_pending

\* line 647
InterruptPendingAfterRestart(g) == TRUE

\* A restore that leaves the old restart checkpoint in place.
NewRestartCheckpoint_KeepOld(old, c) == old

\* line 664
NewRestartCheckpoint(old, c) == Some(c)

\* A restore that never pins the restored state again.
RepinAfterRestore_Never(pins, pos) == pins

\* lines 665-668
RepinAfterRestore(pins, pos) ==
    IF can_add_checkpoint(pos) THEN add_explicit_checkpoint(pins, pos) ELSE pins

\* lines 649-670: go back to checkpoint c
RestoreCheckpoint(g, c) ==
    IF g.debugger_restart_checkpoint = <<>>
    THEN [g EXCEPT !.pos = seek_to_mark(c.mark),
                   !.last_query_tuid = c.last_continue_tuid,
                   !.last_continue_tuid = c.last_continue_tuid,
                   !.status = "aborted"]
    ELSE LET old == g.debugger_restart_checkpoint[1]
             pos == seek_to_mark(c.mark)
             released == IF old.is_explicit = "Explicit"
                         THEN remove_explicit_checkpoint(g.pins, old.mark)
                         ELSE g.pins
         IN [g EXCEPT !.pos = pos,
                      !.last_query_tuid = c.last_continue_tuid,
                      !.last_continue_tuid = c.last_continue_tuid,
                      !.debugger_restart_checkpoint =
                          NewRestartCheckpoint(g.debugger_restart_checkpoint, c),
                      !.pins = RepinAfterRestore(released, pos)]

\* lines 681-703: replay forward until the debuggee's last thread is about
\* to exit or at_target() holds.  Running off the end of the trace fails
\* the debug assertion of line 687.
RECURSIVE ReplayToTarget(_)
ReplayToTarget(g) ==
    LET result == replay_step_forward(g.pos, g.breakpoints, g.watchpoints)
    IN IF result.status = "ReplayExited"
       THEN [g EXCEPT !.status = "aborted"]
       ELSE LET g1 == [g EXCEPT !.pos = result.pos]
            IN IF /\ is_last_thread_exit(result.break_status)
                  /\ g1.target.pid # <<>>
                  /\ result.break_status.tgid = g1.target.pid[1]
               THEN [g1 EXCEPT !.in_debuggee_end_state = TRUE]
               ELSE IF at_target(g1) THEN g1
               ELSE ReplayToTarget(g1)

Min(a, b) == IF a < b THEN a ELSE b

\* A restart at an event that leaves an interrupted replay interrupted.
RestartFromEvent_StaysInterrupted(g, restart) ==
    LET event == Min(g.final_event - 1, restart.param)
        g1 == [g EXCEPT !.target = [@ EXCEPT !.event = event],
                        !.pos = seek_to_before_event(event)]
        g2 == ReplayToTarget(g1)
    IN IF g2.status = "ok" THEN activate_debugger(g2) ELSE g2

\* lines 672-705: restart at an event
RestartFromEvent(g, restart) ==
    LET event == Min(g.final_event - 1, restart.param)
        g1 == [g EXCEPT !.stop_replaying_to_target = FALSE,
                        !.target = [@ EXCEPT !.event = event],
                        !.pos = seek_to_before_event(event)]
        g2 == ReplayToTarget(g1)
    IN IF g2.status = "ok" THEN activate_debugger(g2) ELSE g2

restart_session(g, restart) ==
    LET g0 == [g EXCEPT !.in_debuggee_end_state = FALSE,
                        !.breakpoints = {},
                        !.watchpoints = {}]
        maybe_checkpoint_to_restore == CheckpointToRestore(g0, restart)
    IN IF RestartFails(g0, restart)
       THEN [g0 EXCEPT !.reply = "restart_failed"]
       ELSE LET g1 == [g0 EXCEPT !.interrupt_pending = InterruptPendingAfterRestart(g0)]
            IN IF maybe_checkpoint_to_restore # <<>>
               THEN RestoreCheckpoint(g1, maybe_checkpoint_to_restore[1])
               ELSE RestartFromEvent(g1, restart)

\* a DREQ_CONT and the run direction it carries
Cont(run_direction) ==
    [type_ |-> "DREQ_CONT", kind |-> "none", param |-> 0, run_direction |-> run_direction]

SIGTRAP == 5
SIGKILL == 9

\* An is_in_exec that never sees an exec.
is_in_exec_Never(session) == <<>>

\* is_in_exec, lines 1043-1054: the current task of the session, when the
\* next step is the exit of a successful execve
is_in_exec(session) ==
    IF session.task = None THEN <<>>
    ELSE IF session.step = "execve_exit"
    THEN Some([task |-> session.task, tgid |-> session.tgid])
    ELSE <<>>

\* maybe_notify_stop, lines 764-818: the stop to report, if any, for a break
\* status, in a session state, to a connection with the given
\* reverse_execution feature.  The assignments to stop_siginfo are taken in
\* the order of the code, a later one replacing an earlier one.
stop_to_notify(tguid, req, break_status, session, reverse_execution) ==
    LET watch == break_status.watchpoints_hit # <<>>
        trap == break_status.breakpoint_hit \/ break_status.singlestep_complete
        exit == is_last_thread_exit(break_status) /\ reverse_execution
        maybe_in_exec_task == is_in_exec(session)
        do_stop == watch \/ trap \/ break_status.signal # <<>> \/ exit
                   \/ maybe_in_exec_task # <<>>
        watch_addr == IF watch THEN break_status.watchpoints_hit[1] ELSE 0
        stop_siginfo ==
            IF maybe_in_exec_task # <<>> THEN [si_signo |-> 0, si_code |-> 0]
            ELSE IF exit
            THEN [si_signo |-> IF req.run_direction = "RunForward" THEN SIGKILL ELSE 0,
                  si_code |-> 0]
            ELSE IF break_status.signal # <<>> THEN break_status.signal[1]
            ELSE [si_signo |-> SIGTRAP, si_code |-> 0]
        t == IF maybe_in_exec_task # <<>> THEN maybe_in_exec_task[1]
             ELSE [task |-> break_status.task, tgid |-> break_status.tgid]
    IN IF do_stop /\ t.tgid = tguid
       THEN Some([threadid |-> [pid |-> t.tgid, tid |-> t.task],
                  stop_siginfo |-> stop_siginfo,
                  signo |-> stop_siginfo.si_signo,
                  watch_addr |-> watch_addr,
                  tuid |-> t.task])
       ELSE <<>>

\* A maybe_notify_stop for which a trap hides the signal it coincides with.
maybe_notify_stop_TrapWins(g, req, break_status, reverse_execution) ==
    LET trap == \/ break_status.watchpoints_hit # <<>>
                \/ break_status.breakpoint_hit
                \/ break_status.singlestep_complete
        seen == [break_status EXCEPT !.signal = IF trap THEN <<>> ELSE @]
        stop == stop_to_notify(g.debuggee_tguid, req, seen, Trace[g.pos],
                               reverse_execution)
    IN IF stop # <<>>
       THEN [g EXCEPT !.reply = "stop",
                      !.stop = stop,
                      !.last_continue_tuid = stop[1].tuid,
                      !.last_query_tuid = stop[1].tuid]
       ELSE g

\* A maybe_notify_stop that takes every resume for a forward one.
maybe_notify_stop_ExitAlwaysKill(g, req, break_status, reverse_execution) ==
    LET stop == stop_to_notify(g.debuggee_tguid, Cont("RunForward"), break_status,
                               Trace[g.pos], reverse_execution)
    IN IF stop # <<>>
       THEN [g EXCEPT !.reply = "stop",
                      !.stop = stop,
                      !.last_continue_tuid = stop[1].tuid,
                      !.last_query_tuid = stop[1].tuid]
       ELSE g

\* A maybe_notify_stop that reports a stop whatever thread group its task is of.
maybe_notify_stop_AnyGroup(g, req, break_status, reverse_execution) ==
    LET tguid == IF is_in_exec(Trace[g.pos]) # <<>> THEN Trace[g.pos].tgid
                 ELSE break_status.tgid
        stop == stop_to_notify(tguid, req, break_status, Trace[g.pos], reverse_execution)
    IN IF stop # <<>>
       THEN [g EXCEPT !.reply = "stop",
                      !.stop = stop,
                      !.last_continue_tuid = stop[1].tuid,
                      !.last_query_tuid = stop[1].tuid]
       ELSE g

\* maybe_notify_stop, lines 764-826
maybe_notify_stop(g, req, break_status, reverse_execution) ==
    LET stop == stop_to_notify(g.debuggee_tguid, req, break_status, Trace[g.pos],
                               reverse_execution)
    IN IF stop # <<>>
       THEN [g EXCEPT !.reply = "stop",
                      !.stop = stop,
                      !.last_continue_tuid = stop[1].tuid,
                      !.last_query_tuid = stop[1].tuid]
       ELSE g

(***************************************************************************)
(* The server's state machine: serve_replay, lines 312-405, and the        *)
(* requests its debug loop handles.                                        *)
(***************************************************************************)
NoRequest == [type_ |-> "DREQ_NONE", kind |-> "none", param |-> 0]

RestartRequest(kind, param) == [type_ |-> "DREQ_RESTART", kind |-> kind, param |-> param]

Request(type_) == [type_ |-> type_, kind |-> "none", param |-> 0]

RestartRequests ==
    {RestartRequest("RestartFromCheckpoint", id) : id \in 1..(MaxCheckpoints + 1)}
    \cup {RestartRequest("RestartFromPrevious", 0)}
    \cup {RestartRequest("RestartFromEvent", e) : e \in {0, 2, TraceEnd + 1, FrameTimeMax}}

\* The targets and connection flags rd replay is started with.
ReplayRuns ==
    {[target |-> [pid |-> <<>>, require_exec |-> FALSE, event |-> 0],
      keep_listening |-> TRUE],
     [target |-> [pid |-> <<"tg1">>, require_exec |-> TRUE, event |-> 2],
      keep_listening |-> FALSE],
     [target |-> [pid |-> <<>>, require_exec |-> TRUE, event |-> TraceEnd],
      keep_listening |-> FALSE]}

\* The ConnectionFlags rd replay can be started with: -s with a port or
\* none, -h with an address ("127.0.0.1", "192.168.100.200", and the latter
\* as it fills a buffer of INET_ADDRSTRLEN bytes), and the pipe of a
\* debugger that rd launches.
LaunchFlags ==
    LET LongHost == <<"1", "9", "2", ".", "1", "6", "8", ".", "1", "0", "0", ".",
                      "2", "0", "0">>
    IN [dbg_port : {<<>>, Some(1234)},
        dbg_host : {LOCALHOST_ADDR, LongHost, LongHost \o <<"NUL">>},
        debugger_params_write_pipe : BOOLEAN]

\* GdbServer::new and the flags serve_replay is called with.
ReplayStarted(fl) ==
    /\ flags = fl
    /\ serve_io = [listen_port |-> 0, pipe |-> <<>>, pipe_open |-> fl.debugger_params_write_pipe,
                   log |-> <<>>]
    /\ timeline_pos = 1
    /\ breakpoints = {}
    /\ watchpoints = {}
    /\ explicit_pins = [p \in Positions |-> 0]
    /\ reverse_execution_barrier = 0
    /\ \E run \in ReplayRuns :
           target = run.target /\ keep_listening = run.keep_listening
    /\ debuggee_tguid = None
    /\ last_continue_tuid = None
    /\ last_query_tuid = None
    /\ final_event = FrameTimeMax
    /\ in_debuggee_end_state = FALSE
    /\ stop_replaying_to_target = FALSE
    /\ interrupt_pending = FALSE
    /\ debugger_restart_checkpoint = <<>>
    /\ checkpoints = <<>>
    /\ gdb_pc = "replaying"
    /\ gdb_req = NoRequest
    /\ gdb_reply = "none"
    /\ gdb_stop = <<>>
    /\ gdb_data = <<>>

\* rd replay -s 1234: the debugger is started by hand.
InitGdb ==
    ReplayStarted([dbg_port |-> Some(1234), dbg_host |-> LOCALHOST_ADDR,
                   debugger_params_write_pipe |-> FALSE])

\* The request handled last is kept for a restart and for a query, its
\* reply for a restart only, the stop sent for a resume only and the answer
\* for a query only.
Handled(req, reply) ==
    /\ gdb_req' = (IF req.type_ \in {"DREQ_RESTART", "DREQ_SET_SW_BREAK", "DREQ_GET_MEM",
                                     "DREQ_GET_REGS"}
                   THEN req ELSE NoRequest)
    /\ gdb_reply' = (IF req.type_ = "DREQ_RESTART" THEN reply ELSE "none")
    /\ gdb_stop' = (IF req.type_ = "DREQ_CONT" THEN reply ELSE <<>>)
    /\ gdb_data' = (IF req.type_ \in {"DREQ_SET_SW_BREAK", "DREQ_GET_MEM", "DREQ_GET_REGS"}
                    THEN reply ELSE <<>>)
    /\ UNCHANGED <<flags, serve_io>>
    /\ UNCHANGED <<seccompVars, scratchVars>>

\* open_socket is not in this repository: the port it binds is the one
\* asked for, or with ProbePort that or a later one that is free.
open_socket(port, probe) ==
    IF probe = "ProbePort" THEN {port, (port + 1) % 65536} ELSE {port}

\* serve_replay, lines 313-379: one step of the replay to the target; when
\* the target is reached, the socket is opened, the parameters go through
\* the pipe or the launch command to stderr, and debuggee_tguid and the
\* reverse-execution barrier are set.  The host goes into the record by
\* try_into().unwrap(), which panics unless it is 16 bytes long.
ServeReplayStep ==
    /\ gdb_pc = "replaying"
    /\ LET result == replay_step_forward(timeline_pos, breakpoints, watchpoints)
           g1 == [Cur EXCEPT !.pos = result.pos]
           port0 == IF flags.dbg_port # <<>> THEN flags.dbg_port[1] ELSE RdPid % 65536
           probe == IF flags.dbg_port # <<>> THEN "DontProbe" ELSE "ProbePort"
       IN IF result.status = "ReplayExited"
          THEN /\ gdb_pc' = "exited"
               /\ UNCHANGED <<timeline_pos, debuggee_tguid, reverse_execution_barrier,
                              serve_io>>
          ELSE /\ timeline_pos' = result.pos
               /\ IF at_target(g1)
                  THEN \E port \in open_socket(port0, probe) :
                         LET opened == [serve_io EXCEPT !.listen_port = port,
                                                        !.log = Append(@, "open_socket")]
                             params == [exe_image |-> Trace[result.pos].tgid,
                                        host |-> flags.dbg_host, port |-> port]
                         IN IF flags.debugger_params_write_pipe /\ Len(flags.dbg_host) # 16
                            THEN /\ gdb_pc' = "panicked"
                                 /\ serve_io' = opened
                                 /\ UNCHANGED <<debuggee_tguid, reverse_execution_barrier>>
                            ELSE /\ gdb_pc' = "awaiting"
                                 /\ serve_io' =
                                        IF flags.debugger_params_write_pipe
                                        THEN [opened EXCEPT
                                                 !.pipe = Append(@, params),
                                                 !.pipe_open = FALSE,
                                                 !.log = @ \o <<"write", "close">>]
                                        ELSE [opened EXCEPT !.log =
                                                 Append(@, "write_debugger_launch_command")]
                                 /\ debuggee_tguid' = Trace[result.pos].tgid
                                 /\ reverse_execution_barrier' =
                                        IF first_run_event(Trace[result.pos].tgid) > 0
                                        THEN first_run_event(Trace[result.pos].tgid)
                                        ELSE reverse_execution_barrier
                  ELSE UNCHANGED <<gdb_pc, debuggee_tguid, reverse_execution_barrier,
                                   serve_io>>
    /\ UNCHANGED <<breakpoints, watchpoints, explicit_pins, target, last_continue_tuid,
                   last_query_tuid, final_event, in_debuggee_end_state,
                   stop_replaying_to_target, interrupt_pending,
                   debugger_restart_checkpoint, checkpoints, keep_listening, gdb_req,
                   gdb_reply, gdb_stop, gdb_data, flags>>
    /\ UNCHANGED <<seccompVars, scratchVars>>

\* interrupt_replay_to_target, lines 435-437, called from a signal handler
\* during the replay to the target
interrupt_replay_to_target ==
    /\ gdb_pc = "replaying"
    /\ ~stop_replaying_to_target
    /\ stop_replaying_to_target' = TRUE
    /\ UNCHANGED <<timeline_pos, breakpoints, watchpoints, explicit_pins,
                   reverse_execution_barrier, target, debuggee_tguid, last_continue_tuid,
                   last_query_tuid, final_event, in_debuggee_end_state, interrupt_pending,
                   debugger_restart_checkpoint, checkpoints, keep_listening, gdb_pc,
                   gdb_req, gdb_reply, gdb_stop, gdb_data, flags, serve_io>>
    /\ UNCHANGED <<seccompVars, scratchVars>>

\* serve_replay, lines 381-388: a client connects and the debugger is activated
AwaitConnection ==
    /\ gdb_pc = "awaiting"
    /\ LET g == activate_debugger(Cur)
       IN /\ PinsWithinBound(g)
          /\ Commit(g)
    /\ gdb_pc' = "debugging"
    /\ Handled(NoRequest, "none")
    /\ UNCHANGED <<reverse_execution_barrier, keep_listening>>

\* restart_session as called by the debug loop for a DREQ_RESTART
DebugRestart(req) ==
    /\ gdb_pc = "debugging"
    /\ LET g == restart_session(Cur, [type_ |-> req.kind, param |-> req.param])
       IN /\ PinsWithinBound(g)
          /\ Commit(g)
          /\ gdb_pc' = IF g.status = "ok" THEN "debugging" ELSE g.status
          /\ Handled(req, g.reply)
    /\ UNCHANGED <<reverse_execution_barrier, keep_listening>>

\* debug_one_step for a resume request that steps one frame, on a connection
\* with GdbConnectionFeatures::default(), where reverse_execution is on; the
\* stop an interrupt injects is a SIGINT (2)
DebugContinue(run_direction) ==
    /\ gdb_pc = "debugging"
    /\ LET req == Cont(run_direction)
           g0 == IF in_debuggee_end_state /\ run_direction = "RunBackward"
                 THEN [Cur EXCEPT !.in_debuggee_end_state = FALSE] ELSE Cur
           here == [NoBreakStatus EXCEPT !.task = Trace[timeline_pos].task,
                                         !.tgid = Trace[timeline_pos].tgid,
                                         !.signal = Some([si_signo |-> 2,
                                                          si_code |-> 0])]
           result == IF run_direction = "RunForward"
                     THEN replay_step_forward(timeline_pos, breakpoints, watchpoints)
                     ELSE reverse_singlestep(timeline_pos, reverse_execution_barrier,
                                             breakpoints, watchpoints)
           g1 == [g0 EXCEPT !.pos = result.pos]
           g2 == maybe_notify_stop(g1, req, result.break_status, TRUE)
           g == IF interrupt_pending
                THEN maybe_notify_stop([g0 EXCEPT !.interrupt_pending = FALSE], req,
                                       here, TRUE)
                ELSE IF run_direction = "RunForward"
                        /\ (in_debuggee_end_state \/ result.status = "ReplayExited")
                THEN [g0 EXCEPT !.reply = "exit_code"]
                ELSE [g2 EXCEPT !.in_debuggee_end_state =
                          \/ @
                          \/ /\ run_direction = "RunForward"
                             /\ is_last_thread_exit(result.break_status)
                             /\ result.break_status.tgid = debuggee_tguid]
       IN Commit(g) /\ Handled(req, g.stop)
    /\ UNCHANGED <<reverse_execution_barrier, keep_listening, gdb_pc>>

\* DREQ_SET_SW_BREAK and DREQ_SET_WR_WATCH: gdb inserts its breakpoints and
\* watchpoints in one go before it resumes the debuggee
DebugSetBreakpoints(bps, wps) ==
    /\ gdb_pc = "debugging"
    /\ breakpoints = {} /\ watchpoints = {}
    /\ Commit([Cur EXCEPT !.breakpoints = bps, !.watchpoints = wps])
    /\ Handled(Request("DREQ_SET_SW_BREAK"), "none")
    /\ UNCHANGED <<reverse_execution_barrier, keep_listening, gdb_pc>>

\* gdb's checkpoint command (gdb_command_handler.rs:904): a new table entry,
\* pinned when the state can be checkpointed
DebugCreateCheckpoint ==
    /\ gdb_pc = "debugging"
    /\ \E id \in 1..MaxCheckpoints :
           /\ id \notin DOMAIN checkpoints
           /\ \A j \in 1..(id - 1) : j \in DOMAIN checkpoints
           /\ LET e == IF can_add_checkpoint(timeline_pos)
                       THEN "Explicit" ELSE "NotExplicit"
                  made == Checkpoint_new(explicit_pins, timeline_pos,
                                         last_continue_tuid, e)
                  g == [Cur EXCEPT !.pins = made.pins,
                                   !.checkpoints = (id :> made.checkpoint) @@ @]
              IN PinsWithinBound(g) /\ Commit(g)
    /\ Handled(Request("DREQ_RD_CMD"), "none")
    /\ UNCHANGED <<reverse_execution_barrier, keep_listening, gdb_pc>>

\* gdb's delete checkpoint command: the entry goes and its pin is released
DebugDeleteCheckpoint(id) ==
    /\ gdb_pc = "debugging"
    /\ id \in DOMAIN checkpoints
    /\ LET c == checkpoints[id]
           pins == IF c.is_explicit = "Explicit"
                   THEN remove_explicit_checkpoint(explicit_pins, c.mark)
                   ELSE explicit_pins
       IN Commit([Cur EXCEPT !.pins = pins,
                             !.checkpoints = [j \in DOMAIN checkpoints \ {id} |->
                                                  checkpoints[j]]])
    /\ Handled(Request("DREQ_RD_CMD"), "none")
    /\ UNCHANGED <<reverse_execution_barrier, keep_listening, gdb_pc>>

\* serve_replay, lines 397-402: the debug loop ended
\* A serve_replay whose loop goes on to the next connection with what the
\* last client had set.
DebugDetach_KeepsBreakpoints ==
    /\ gdb_pc = "debugging"
    /\ Commit(Cur)
    /\ gdb_pc' = IF keep_listening THEN "awaiting" ELSE "exited"
    /\ Handled(Request("DREQ_DETACH"), "none")
    /\ UNCHANGED <<reverse_execution_barrier, keep_listening>>

\* the debug loop of one connection ends (the client detached or left):
\* serve_replay lines 396-402
DebugDetach ==
    /\ gdb_pc = "debugging"
    /\ Commit([Cur EXCEPT !.breakpoints = {}, !.watchpoints = {}])
    /\ gdb_pc' = IF keep_listening THEN "awaiting" ELSE "exited"
    /\ Handled(Request("DREQ_DETACH"), "none")
    /\ UNCHANGED <<reverse_execution_barrier, keep_listening>>

NextGdb ==
    \/ ServeReplayStep
    \/ interrupt_replay_to_target
    \/ AwaitConnection
    \/ \E req \in RestartRequests : DebugRestart(req)
    \/ \E d \in {"RunForward", "RunBackward"} : DebugContinue(d)
    \/ DebugSetBreakpoints({BREAK_ADDR}, {WATCH_ADDR})
    \/ DebugCreateCheckpoint
    \/ \E id \in 1..MaxCheckpoints : DebugDeleteCheckpoint(id)
    \/ DebugDetach

\* serve_replay alone: the replay to the target, and clients that connect
\* and detach.
NextServe ==
    \/ ServeReplayStep
    \/ interrupt_replay_to_target
    \/ AwaitConnection
    \/ DebugSetBreakpoints({BREAK_ADDR}, {WATCH_ADDR})
    \/ DebugDetach

(***************************************************************************)
(* maybe_notify_stop on its own: a debugging session in which a resume     *)
(* ends with any break status, those of the trace and others.              *)
(***************************************************************************)
\* BreakStatus: the task the stop is on, the watchpoints hit, a signal
\* (here a SIGSEGV with its si_code) and the flags
BreakStatuses ==
    LET of(task, tgid) ==
            [task : {task}, tgid : {tgid}, task_exit : BOOLEAN, last_thread : BOOLEAN,
             breakpoint_hit : BOOLEAN, singlestep_complete : BOOLEAN,
             watchpoints_hit : {<<>>, <<WATCH_ADDR>>, <<WATCH_ADDR + 8, WATCH_ADDR>>},
             signal : {<<>>, <<[si_signo |-> 11, si_code |-> 1]>>}]
    IN of("t1", "tg1") \cup of("t2", "tg1") \cup of("t3", "tg2")

\* The server after serve_replay has reached its target at frame a and
\* activate_debugger has run there; the timeline has moved to any frame the
\* debugger can be at.
GdbDebugging ==
    /\ \E a \in {2, 3} :
           /\ debuggee_tguid = Trace[a].tgid
           /\ reverse_execution_barrier = first_run_event(Trace[a].tgid)
           /\ target = [pid |-> Some(Trace[a].tgid), require_exec |-> FALSE, event |-> a]
           /\ last_continue_tuid = Trace[a].task
           /\ last_query_tuid = Trace[a].task
           /\ explicit_pins = [p \in Positions |-> IF p = a THEN 1 ELSE 0]
           /\ debugger_restart_checkpoint =
                  Some([mark |-> mark(a), last_continue_tuid |-> Trace[a].task,
                        is_explicit |-> "Explicit"])
    /\ timeline_pos \in 2..TraceEnd
    /\ breakpoints = {}
    /\ watchpoints = {}
    /\ final_event = FrameTimeMax
    /\ in_debuggee_end_state = FALSE
    /\ stop_replaying_to_target = FALSE
    /\ interrupt_pending = FALSE
    /\ checkpoints = <<>>
    /\ keep_listening = TRUE
    /\ gdb_pc = "debugging"
    /\ gdb_req = NoRequest
    /\ gdb_reply = "none"
    /\ gdb_stop = <<>>
    /\ gdb_data = <<>>
    /\ flags = [dbg_port |-> Some(1234), dbg_host |-> LOCALHOST_ADDR,
                debugger_params_write_pipe |-> FALSE]
    /\ serve_io = [listen_port |-> 1234, pipe |-> <<>>, pipe_open |-> FALSE,
                   log |-> <<"open_socket", "write_debugger_launch_command">>]

\* debug_one_step's call of maybe_notify_stop for the break status a resume
\* ended with, on a connection with or without reverse execution
MaybeNotifyStop(req, break_status, features) ==
    /\ gdb_pc = "debugging"
    /\ LET g == maybe_notify_stop(Cur, req, break_status, features.reverse_execution)
       IN Commit(g) /\ Handled(req, g.stop)
    /\ UNCHANGED <<reverse_execution_barrier, keep_listening, gdb_pc>>

NextStops ==
    \/ \E req \in {Cont("RunForward"), Cont("RunBackward")},
          break_status \in BreakStatuses, features \in [reverse_execution : BOOLEAN] :
           MaybeNotifyStop(req, break_status, features)
    \/ \E d \in {"RunForward", "RunBackward"} : DebugContinue(d)
    \/ DebugSetBreakpoints({BREAK_ADDR}, {WATCH_ADDR})

(***************************************************************************)
(* The helpers that answer a request without resuming the replay, each on  *)
(* its own: dispatch_debugger_request, their caller, is not implemented in *)
(* this port, so the requests reach them as they do in rr.  A session is   *)
(* followed up to its first such request.                                  *)
(***************************************************************************)
MaxConditions == 3

\* A condition that breaks only when every expression fails or is nonzero.
GdbBreakpointCondition_evaluate_All(expressions) ==
    \A n \in DOMAIN expressions : ~expressions[n].ok \/ expressions[n].i # 0

\* GdbBreakpointCondition::evaluate, lines 1087-1098. GdbExpression is not
\* under src: an expression stands for what its evaluation on the task
\* yields, whether it succeeded (ok) and the value it left in v.i.
RECURSIVE GdbBreakpointCondition_evaluate(_)
GdbBreakpointCondition_evaluate(expressions) ==
    IF expressions = <<>>
    THEN FALSE
    ELSE LET e == Head(expressions)
         IN IF ~e.ok \/ e.i # 0
            THEN TRUE
            ELSE GdbBreakpointCondition_evaluate(Tail(expressions))

\* breakpoint_condition, lines 1100-1107
breakpoint_condition(request) ==
    IF request.watch.conditions = <<>>
    THEN <<>>
    ELSE Some(request.watch.conditions)

\* The task reaches the breakpoint that a DREQ_SET_SW_BREAK with these
\* conditions registered with what breakpoint_condition made of them: the
\* timeline breaks there
\* when there is no condition or the condition evaluates to true.
BreakpointReached(conditions) ==
    /\ gdb_pc = "debugging"
    /\ gdb_data = <<>>
    /\ LET request == [type_ |-> "DREQ_SET_SW_BREAK", kind |-> "none", param |-> 0,
                       watch |-> [addr |-> BREAK_ADDR, conditions |-> conditions]]
           condition == breakpoint_condition(request)
           fires == condition = <<>> \/ GdbBreakpointCondition_evaluate(condition[1])
       IN Handled(request, Some(fires))
    /\ Commit(Cur)
    /\ UNCHANGED <<reverse_execution_barrier, keep_listening, gdb_pc>>

\* A maybe_intercept_mem_request that does not look at where the ip is.
maybe_intercept_mem_request_AnyIp(t, req, result) ==
    LET size == IF t.arch = "X86" THEN 4 ELSE 8
        offset == t.sp - req.mem.addr
    IN IF t.sp >= req.mem.addr /\ t.sp + size <= req.mem.addr + req.mem.len
       THEN [status |-> "ok",
             result |-> [n \in DOMAIN result |->
                            IF n - 1 \in offset..(offset + size - 1) THEN 0 ELSE result[n]]]
       ELSE [status |-> "ok", result |-> result]

\* maybe_intercept_mem_request, lines 476-492, with word_size (4 on x86, 8
\* on x86-64) and is_in_patch_stubs, lines 987-993: t.ip_mapping is
\* vm().mapping_of(ip), None or the flags of the mapping.  Filling a slice
\* that reaches behind the end of result panics.
maybe_intercept_mem_request(t, req, result) ==
    LET size == IF t.arch = "X86" THEN 4 ELSE 8
        is_in_patch_stubs ==
            /\ t.ip_mapping # <<>>
            /\ "IS_PATCH_STUBS" \in t.ip_mapping[1]
        offset == t.sp - req.mem.addr
    IN IF /\ t.sp >= req.mem.addr
          /\ t.sp + size <= req.mem.addr + req.mem.len
          /\ is_in_patch_stubs
       THEN IF offset + size > Len(result)
            THEN [status |-> "panicked", result |-> result]
            ELSE [status |-> "ok",
                  result |-> [n \in DOMAIN result |->
                                 IF n - 1 \in offset..(offset + size - 1)
                                 THEN 0 ELSE result[n]]]
       ELSE [status |-> "ok", result |-> result]

\* DREQ_GET_MEM as rr answers it: nread bytes of the range are read from
\* the task (the byte at address a is a % 255 + 1, never zero) and handed to
\* maybe_intercept_mem_request before they are sent.  The task and the
\* bytes read are kept next to the answer.
GetMem(t, addr, len, nread) ==
    /\ gdb_pc = "debugging"
    /\ gdb_data = <<>>
    /\ LET req == [type_ |-> "DREQ_GET_MEM", kind |-> "none", param |-> 0,
                   mem |-> [addr |-> addr, len |-> len]]
           mem == [n \in 1..nread |-> ((addr + n - 1) % 255) + 1]
       IN Handled(req, Some([task |-> t, read |-> mem,
                             reply |-> maybe_intercept_mem_request(t, req, mem)]))
    /\ Commit(Cur)
    /\ UNCHANGED <<reverse_execution_barrier, keep_listening, gdb_pc>>

\* GdbRegister numbers and the cpu feature bit; gdb_register.rs and
\* gdb_connection.rs are not under src, the numbers are those of gdb's
\* register descriptions for i386 and x86-64.
DREG_ORIG_EAX == 41
DREG_YMM7H == 49
DREG_ORIG_RAX == 57
DREG_64_YMM15H == 75
CPU_AVX == 2

\* GdbServer::get_reg, lines 255-309, over the free get_reg of lines
\* 975-985: Registers::read_register, and ExtraRegisters::read_register
\* when that has no value, give the size of what they wrote to buf.  A size
\* above MAX_SIZE, for which the code panics, does not fit the buffer of
\* MAX_SIZE bytes they write to.
get_reg(regs0, extra_regs, which) ==
    LET maybe_size == IF regs0.read_register[which] # <<>>
                      THEN regs0.read_register[which]
                      ELSE extra_regs.read_register[which]
    IN IF maybe_size = <<>>
       THEN [name |-> which, value |-> "ValueGeneric", defined |-> FALSE, size |-> 0]
       ELSE [name |-> which,
             value |-> CASE maybe_size[1] = 1 -> "Value1"
                         [] maybe_size[1] = 2 -> "Value2"
                         [] maybe_size[1] = 4 -> "Value4"
                         [] maybe_size[1] = 8 -> "Value8"
                         [] OTHER -> "ValueGeneric",
             defined |-> TRUE, size |-> maybe_size[1]]

\* A dispatch_regs_request that leaves out the registers without a value.
dispatch_regs_request_SkipsUndefined(cpu_features, regs0, extra_regs) ==
    LET end == IF regs0.arch = "X86"
               THEN (IF BitAnd(cpu_features, CPU_AVX) # 0 THEN DREG_YMM7H ELSE DREG_ORIG_EAX)
               ELSE (IF BitAnd(cpu_features, CPU_AVX) # 0 THEN DREG_64_YMM15H
                     ELSE DREG_ORIG_RAX)
    IN SelectSeq([n \in 1..(end + 1) |-> get_reg(regs0, extra_regs, n - 1)],
                 LAMBDA v : v.defined)

\* dispatch_regs_request, lines 447-474: the reply it hands to reply_get_regs
dispatch_regs_request(cpu_features, regs0, extra_regs) ==
    LET have_avx == BitAnd(cpu_features, CPU_AVX) # 0
        end == IF regs0.arch = "X86"
               THEN (IF have_avx THEN DREG_YMM7H ELSE DREG_ORIG_EAX)
               ELSE (IF have_avx THEN DREG_64_YMM15H ELSE DREG_ORIG_RAX)
    IN [n \in 1..(end + 1) |-> get_reg(regs0, extra_regs, n - 1)]

\* DREQ_GET_REGS about a task whose Registers hold the general registers
\* (word-sized, up to the segment registers, and orig_eax/orig_rax) and
\* whose ExtraRegisters hold the others (of 2, 4, 10 or 16 bytes), but for
\* the registers of unreadable, which have no value.  The task and the
\* features are kept next to the answer.
GetRegs(arch, cpu_features, unreadable) ==
    /\ gdb_pc = "debugging"
    /\ gdb_data = <<>>
    /\ LET user == IF arch = "X86" THEN (0..15) \cup {DREG_ORIG_EAX}
                   ELSE (0..23) \cup {DREG_ORIG_RAX}
           regs0 == [arch |-> arch,
                     read_register |->
                         [r \in 0..DREG_64_YMM15H |->
                             IF r \in user \ unreadable
                             THEN Some(IF arch = "X86" THEN 4 ELSE 8) ELSE <<>>]]
           extra_regs == [read_register |->
                             [r \in 0..DREG_64_YMM15H |->
                                 IF r \in user \cup unreadable THEN <<>>
                                 ELSE Some(CASE r % 4 = 0 -> 10 [] r % 4 = 1 -> 2
                                             [] r % 4 = 2 -> 4 [] OTHER -> 16)]]
           req == [type_ |-> "DREQ_GET_REGS", kind |-> "none", param |-> 0]
           rs == dispatch_regs_request(cpu_features, regs0, extra_regs)
       IN Handled(req, Some([arch |-> arch, cpu_features |-> cpu_features,
                             unreadable |-> unreadable, reply |-> rs]))
    /\ Commit(Cur)
    /\ UNCHANGED <<reverse_execution_barrier, keep_listening, gdb_pc>>

\* The requests: DREQ_SET_SW_BREAK with up to MaxConditions conditions;
\* DREQ_GET_MEM for ranges around 0x1000 about tasks whose stack pointer is
\* near it and whose ip is outside every mapping, in a plain one or in the
\* patch stubs, all of the range being read or all but its last four bytes;
\* DREQ_GET_REGS on connections with the features get_cpu_features makes
\* for the task's architecture, with and without CPU_AVX, and any of the
\* first, a middle and the four end registers unreadable.
NextQueries ==
    \/ \E c \in UNION {[1..n -> [ok : BOOLEAN, i : {0, 1}]] : n \in 0..MaxConditions} :
           BreakpointReached(c)
    \/ \E t \in [arch : {"X86", "X64"}, sp : {4084, 4088, 4092, 4096, 4100, 4104},
                  ip_mapping : {<<>>, Some({}), Some({"IS_PATCH_STUBS"})}],
          addr \in {4088, 4096}, len \in {4, 8, 16}, short \in {0, 4} :
           GetMem(t, addr, len, len - short)
    \/ \E arch \in {"X86", "X64"}, avx \in {0, CPU_AVX},
          unreadable \in SUBSET {0, 20, DREG_ORIG_EAX, DREG_YMM7H, DREG_ORIG_RAX,
                                 DREG_64_YMM15H} :
           GetRegs(arch, (IF arch = "X64" THEN 1 ELSE 0) + avx, unreadable)

(***************************************************************************)
(* TaskSyscallState: the scratch-memory protocol of record_syscall.rs.     *)
(* Tracee memory is an array of bytes, a pointer is an 8-byte              *)
(* little-endian word (x86-64), and the syscall itself is a step of the    *)
(* kernel between done_preparing and process_syscall_results.              *)
(***************************************************************************)
MaxParams == 2          \* registrations made for one syscall
MemTop == 103           \* highest tracee address

WordSize == 8           \* size_of::<Arch::unsigned_word>()
ScratchAlign == 8       \* align_scratch: maybe_amount.unwrap_or(8)
I32Max == 2147483647    \* i32::MAX

\* prctl options and arguments (linux/prctl.h, linux/seccomp.h)
PR_GET_DUMPABLE == 3
PR_SET_DUMPABLE == 4
PR_GET_UNALIGN == 5
PR_SET_NAME == 15
PR_GET_NAME == 16
PR_GET_SECCOMP == 21
PR_GET_TSC == 25
PR_SET_TSC == 26
PR_SET_NO_NEW_PRIVS == 38
PR_SET_PTRACER == 1499557217
PR_TSC_ENABLE == 1
PR_TSC_SIGSEGV == 2
SECCOMP_MODE_STRICT == 1
MaxRecorded == 1        \* records in the trace past which no prctl is entered

\* The task's scratch mapping.
SCRATCH_PTR == 64
usable_scratch_size == 24

\* What the tracee has in memory when it enters the syscall: a 16-byte
\* structure at buf_a whose first four bytes are a length and whose second
\* word, at buf_a_ptr, points to buf_c; a plain buffer at buf_b; and at
\* stray_ptr a pointer that lies in no buffer.
Tracee == [buf_a |-> 8, buf_a_ptr |-> 16, buf_b |-> 24, buf_c |-> 40, stray_ptr |-> 48]

\* ---- bytes and words
read_mem(m, addr, n) == [k \in 1..n |-> m[addr + k - 1]]

write_mem(m, addr, buf) ==
    [a \in DOMAIN m |->
        IF a >= addr /\ a < addr + Len(buf) THEN buf[a - addr + 1] ELSE m[a]]

\* The value of n little-endian bytes.  No address or size here reaches
\* 2^24: whatever is larger reads as I32Max, an address that is not mapped.
read_val_mem(m, addr, n) ==
    LET buf == read_mem(m, addr, n)
    IN IF \E k \in 4..n : buf[k] # 0 THEN I32Max
       ELSE buf[1] + 256 * buf[2] + 65536 * buf[3]

\* Writes the n little-endian bytes of a value below 2^24.
write_val_mem(m, addr, value, n) ==
    write_mem(m, addr, [k \in 1..n |-> IF k = 1 THEN value % 256
                                       ELSE IF k = 2 THEN (value \div 256) % 256
                                       ELSE IF k = 3 THEN (value \div 65536) % 256
                                       ELSE 0])

set_remote_ptr(m, addr, value) == write_val_mem(m, addr, value, WordSize)

get_remote_ptr(m, addr) == read_val_mem(m, addr, WordSize)

align_scratch(s) == ((s + ScratchAlign - 1) \div ScratchAlign) * ScratchAlign

\* ---- the tracee's memory and registers at syscall entry
KernelByte(k) == 200 + k    \* the k-th byte the kernel writes to a buffer

\* Every byte of a user buffer is different, and scratch holds what
\* earlier syscalls left there.
InitialMem ==
    LET bytes == [a \in 0..MemTop |-> IF a >= SCRATCH_PTR THEN 255 ELSE 100 + a]
        len == write_val_mem(bytes, Tracee.buf_a, 8, 4)
        ptr == set_remote_ptr(len, Tracee.buf_a_ptr, Tracee.buf_c)
    IN set_remote_ptr(ptr, Tracee.stray_ptr, Tracee.buf_c)

Registers(arg1, arg2) ==
    [args |-> <<arg1, arg2, 0, 0, 0, 0>>, syscall_result |-> 0]

\* ---- ParamSize
ParamSize_from(siz) ==
    [incoming_size |-> Min(I32Max, siz), mem_ptr |-> 0, read_size |-> 0,
     from_syscall |-> FALSE]

from_initialized_mem(m, p, read_size) ==
    [ParamSize_from(IF p = 0 THEN 0 ELSE read_val_mem(m, p, read_size))
        EXCEPT !.mem_ptr = p, !.read_size = read_size]

from_syscall_result_with_size(read_size, incoming_size) ==
    [ParamSize_from(incoming_size)
        EXCEPT !.from_syscall = TRUE, !.read_size = read_size]

is_same_source(self, other) ==
    /\ \/ self.mem_ptr # 0 /\ other.mem_ptr = self.mem_ptr
       \/ self.from_syscall /\ other.from_syscall
    /\ self.read_size = other.read_size

\* max(0, syscall_result_signed()) as the read_size wide unsigned value
syscall_size(self, r) ==
    LET size == IF r.syscall_result > 0 THEN r.syscall_result ELSE 0
    IN IF self.read_size = 4 /\ size >= 65536
       THEN ((size \div 65536) % 65536) * 65536 + (size % 65536)    \* as u32
       ELSE size

\* The ed_assert!s of ParamSize::eval.
eval_asserts(self, m, r, consumed) ==
    /\ self.mem_ptr # 0 =>
          /\ self.read_size \in {4, 8}
          /\ consumed <= read_val_mem(m, self.mem_ptr, self.read_size)
    /\ self.from_syscall =>
          /\ self.read_size \in {4, 8}
          /\ consumed <= syscall_size(self, r)

\* An eval that takes what was consumed from the smallest of the sizes.
ParamSize_eval_ConsumedFromMin(self, m, r, consumed) ==
    LET mem_size == read_val_mem(m, self.mem_ptr, self.read_size)
        s1 == IF self.mem_ptr # 0 THEN Min(self.incoming_size, mem_size)
              ELSE self.incoming_size
        s2 == IF self.from_syscall THEN Min(s1, syscall_size(self, r)) ELSE s1
    IN IF s2 > consumed THEN s2 - consumed ELSE 0

ParamSize_eval(self, m, r, consumed) ==
    LET s0 == self.incoming_size
        mem_size == read_val_mem(m, self.mem_ptr, self.read_size)
        s1 == IF self.mem_ptr # 0 THEN Min(s0, mem_size - consumed) ELSE s0
    IN IF self.from_syscall THEN Min(s1, syscall_size(self, r) - consumed) ELSE s1

\* ---- MemoryParam
\* mode is "In", "Out", "InOut" or "InOutNoScratch".  A mutator is a closure
\* of the caller: "keeps" changes nothing and returns false, "rewrites" saves
\* the bytes it then rewrites.
MemoryParam_default ==
    [dest |-> 0, scratch |-> 0, num_bytes |-> ParamSize_from(0),
     ptr_in_memory |-> 0, ptr_in_reg |-> 0, mode |-> "Out",
     maybe_mutator |-> None]

\* The bytes [dest, dest + incoming_size) of a parameter.
DestRange(param) == param.dest..(param.dest + param.num_bytes.incoming_size - 1)

\* ---- TaskSyscallState as one record
CurSyscall ==
    [task_mem |-> task_mem, regs |-> regs, param_list |-> param_list,
     scratch |-> scratch, should_emulate_result |-> should_emulate_result,
     emulated_result |-> emulated_result, switchable |-> switchable,
     write_back |-> write_back, preparation_done |-> preparation_done,
     scratch_enabled |-> scratch_enabled, saved_data |-> saved_data,
     recorded |-> recorded, returned |-> returned,
     syscall_entry_registers |-> syscall_entry_registers,
     expect_errno |-> expect_errno, dumpable |-> dumpable, tsc_mode |-> tsc_mode,
     panicked |-> FALSE]

CommitSyscall(ts, pc) ==
    /\ task_mem' = ts.task_mem
    /\ regs' = ts.regs
    /\ param_list' = ts.param_list
    /\ scratch' = ts.scratch
    /\ should_emulate_result' = ts.should_emulate_result
    /\ emulated_result' = ts.emulated_result
    /\ switchable' = ts.switchable
    /\ write_back' = ts.write_back
    /\ preparation_done' = ts.preparation_done
    /\ scratch_enabled' = ts.scratch_enabled
    /\ saved_data' = ts.saved_data
    /\ recorded' = ts.recorded
    /\ returned' = ts.returned
    /\ syscall_entry_registers' = ts.syscall_entry_registers
    /\ expect_errno' = ts.expect_errno
    /\ dumpable' = ts.dumpable
    /\ tsc_mode' = ts.tsc_mode
    /\ syscall_pc' = (IF ts.panicked THEN "panicked" ELSE pc)
    /\ UNCHANGED <<scratch_ptr, seccompVars, gdbVars>>

\* A failed assert!/ed_assert! ends the recorder where it stands.
Panic(ts) == [ts EXCEPT !.panicked = TRUE]

\* TaskSyscallState::new, init, and the entry registers saved by
\* rec_prepare_syscall_arch before anything is registered.
InitScratch ==
    /\ task_mem = InitialMem
    /\ regs \in {Registers(Tracee.buf_a, Tracee.buf_b),       \* separate buffers
                 Registers(Tracee.buf_a, Tracee.buf_a + 4),   \* overlapping ones
                 Registers(0, Tracee.buf_b)}                  \* a null pointer
    /\ scratch_ptr \in {0, SCRATCH_PTR}
    /\ param_list = <<>>
    /\ scratch = scratch_ptr
    /\ syscall_entry_registers = regs
    /\ should_emulate_result = FALSE
    /\ emulated_result = 0
    /\ switchable = "PreventSwitch"
    /\ write_back = "NoWriteBack"
    /\ preparation_done = FALSE
    /\ scratch_enabled = FALSE
    /\ saved_data = <<>>
    /\ recorded = <<>>
    /\ returned = 0
    /\ expect_errno = 0
    /\ dumpable = TRUE               \* a new thread group can be dumped
    /\ tsc_mode = PR_TSC_ENABLE      \* and its tasks may read the TSC
    /\ syscall_pc = "preparing"

\* ---- registration
\* A registration that allocates from the start of the address space.
Registered_FromZero(ts, param, uses_scratch) ==
    IF uses_scratch
    THEN [ts EXCEPT !.param_list = Append(@, [param EXCEPT !.scratch = 0]),
                    !.scratch = align_scratch(param.num_bytes.incoming_size)]
    ELSE [ts EXCEPT !.param_list = Append(@, param)]

Registered(ts, param, uses_scratch) ==
    IF uses_scratch
    THEN [ts EXCEPT !.param_list = Append(@, [param EXCEPT !.scratch = ts.scratch]),
                    !.scratch = align_scratch(@ + param.num_bytes.incoming_size)]
    ELSE [ts EXCEPT !.param_list = Append(@, param)]

\* A registration that does not look at preparation_done.
reg_parameter_with_size_WhilePrepared(ts, arg, param_size, mode, maybe_mutator) ==
    LET dest == ts.syscall_entry_registers.args[arg]
        param == [MemoryParam_default EXCEPT
                     !.dest = dest, !.num_bytes = param_size, !.mode = mode,
                     !.ptr_in_reg = arg]
    IN IF dest = 0 THEN [ts EXCEPT !.returned = 0]
       ELSE [Registered(ts, param, TRUE) EXCEPT !.returned = dest]

reg_parameter_with_size(ts, arg, param_size, mode, maybe_mutator) ==
    LET dest == ts.syscall_entry_registers.args[arg]
        param == [MemoryParam_default EXCEPT
                     !.dest = dest, !.num_bytes = param_size, !.mode = mode,
                     !.maybe_mutator = maybe_mutator,
                     !.ptr_in_reg = IF mode # "InOutNoScratch" THEN arg ELSE 0]
    IN IF ts.preparation_done \/ dest = 0 THEN [ts EXCEPT !.returned = 0]
       ELSE IF ~(maybe_mutator = None \/ mode = "In") THEN Panic(ts)
       ELSE [Registered(ts, param, mode # "InOutNoScratch") EXCEPT !.returned = dest]

mem_ptr_parameter_with_size(ts, addr_of_buf_ptr, param_size, mode, maybe_mutator) ==
    LET dest == get_remote_ptr(ts.task_mem, addr_of_buf_ptr)
        param == [MemoryParam_default EXCEPT
                     !.dest = dest, !.num_bytes = param_size, !.mode = mode,
                     !.maybe_mutator = maybe_mutator,
                     !.ptr_in_memory = IF mode # "InOutNoScratch"
                                       THEN addr_of_buf_ptr ELSE 0]
    IN IF ts.preparation_done \/ addr_of_buf_ptr = 0 THEN [ts EXCEPT !.returned = 0]
       ELSE IF dest = 0 THEN [ts EXCEPT !.returned = 0]
       ELSE IF ~(maybe_mutator = None \/ mode = "In") THEN Panic(ts)
       ELSE [Registered(ts, param, mode # "InOutNoScratch") EXCEPT !.returned = dest]

emulate_result(ts, result) ==
    IF ts.preparation_done \/ ts.should_emulate_result THEN Panic(ts)
    ELSE [ts EXCEPT !.should_emulate_result = TRUE, !.emulated_result = result]

\* ---- done_preparing
Containing(params, ptr) ==
    {i \in 1..Len(params) :
        /\ params[i].dest <= ptr
        /\ ptr < params[i].dest + params[i].num_bytes.incoming_size}

\* The two assert!s of relocate_pointer_to_scratch.
relocate_asserts(params, ptr) == Cardinality(Containing(params, ptr)) = 1

relocate_pointer_to_scratch(params, ptr) ==
    LET i == CHOOSE j \in Containing(params, ptr) : TRUE
    IN params[i].scratch + (ptr - params[i].dest)

\* A fix-up that patches the pointer where the tracee keeps it.
PointerFixupLocation_InPlace(params, ptr) == ptr

\* Where done_preparing_internal rewrites an in-memory pointer.
PointerFixupLocation(params, ptr) == relocate_pointer_to_scratch(params, ptr)

\* Step 1: copy all IN/IN_OUT parameters to their scratch areas.
RECURSIVE CopyInputsToScratch(_, _, _)
CopyInputsToScratch(params, i, m) ==
    IF i > Len(params) THEN m
    ELSE LET param == params[i]
             buf == read_mem(m, param.dest, param.num_bytes.incoming_size)
         IN CopyInputsToScratch(params, i + 1,
                IF param.mode \in {"InOut", "In"}
                THEN write_mem(m, param.scratch, buf) ELSE m)

\* Step 2: update pointers in registers/memory to point to scratch areas.
\* acc is [task_mem, regs, param_list, panicked].
RECURSIVE RedirectPointers(_, _, _)
RedirectPointers(params, i, acc) ==
    IF i > Len(params) \/ acc.panicked THEN acc
    ELSE LET param == params[i]
             r == IF param.ptr_in_reg # 0
                  THEN [acc.regs EXCEPT !.args[param.ptr_in_reg] = param.scratch]
                  ELSE acc.regs
             ptr_ok == param.ptr_in_memory # 0 =>
                          relocate_asserts(params, param.ptr_in_memory)
             size_ok == param.num_bytes.mem_ptr # 0 =>
                          relocate_asserts(params, param.num_bytes.mem_ptr)
             m == IF param.ptr_in_memory # 0
                  THEN set_remote_ptr(acc.task_mem,
                           PointerFixupLocation(params, param.ptr_in_memory),
                           param.scratch)
                  ELSE acc.task_mem
             adjusted == IF param.num_bytes.mem_ptr # 0
                         THEN [acc.param_list EXCEPT ![i].num_bytes.mem_ptr =
                                  relocate_pointer_to_scratch(params, param.num_bytes.mem_ptr)]
                         ELSE acc.param_list
         IN IF ~ptr_ok THEN [acc EXCEPT !.panicked = TRUE]
            ELSE IF ~size_ok THEN [acc EXCEPT !.task_mem = m, !.panicked = TRUE]
            ELSE RedirectPointers(params, i + 1,
                    [acc EXCEPT !.task_mem = m, !.regs = r, !.param_list = adjusted])

\* A done_preparing that enables scratch whatever the registrations took.
done_preparing_internal_AnySize(ts, sw) ==
    LET t1 == [ts EXCEPT !.preparation_done = TRUE, !.write_back = "WriteBack",
                         !.switchable = sw]
        copied == CopyInputsToScratch(ts.param_list, 1, ts.task_mem)
        redirected == RedirectPointers(ts.param_list, 1,
                          [task_mem |-> copied, regs |-> ts.regs,
                           param_list |-> ts.param_list, panicked |-> FALSE])
    IN IF scratch_ptr = 0 THEN t1
       ELSE IF ~(ts.scratch >= scratch_ptr) THEN Panic(t1)
       ELSE IF t1.switchable = "PreventSwitch" \/ Len(ts.param_list) = 0 THEN t1
       ELSE IF redirected.panicked THEN Panic([t1 EXCEPT !.scratch_enabled = TRUE])
       ELSE [t1 EXCEPT !.scratch_enabled = TRUE,
                       !.task_mem = redirected.task_mem,
                       !.regs = redirected.regs,
                       !.param_list = redirected.param_list]

\* lines 709-776
done_preparing_internal(ts, sw) ==
    LET t1 == [ts EXCEPT !.preparation_done = TRUE, !.write_back = "WriteBack",
                         !.switchable = sw]
        t2 == IF sw = "AllowSwitch" /\ ts.scratch > scratch_ptr + usable_scratch_size
              THEN [t1 EXCEPT !.switchable = "PreventSwitch"] ELSE t1
        copied == CopyInputsToScratch(ts.param_list, 1, ts.task_mem)
        redirected == RedirectPointers(ts.param_list, 1,
                          [task_mem |-> copied, regs |-> ts.regs,
                           param_list |-> ts.param_list, panicked |-> FALSE])
    IN IF scratch_ptr = 0 THEN t1
       ELSE IF ~(ts.scratch >= scratch_ptr) THEN Panic(t1)
       ELSE IF t2.switchable = "PreventSwitch" \/ Len(ts.param_list) = 0 THEN t2
       ELSE IF redirected.panicked THEN Panic([t2 EXCEPT !.scratch_enabled = TRUE])
       ELSE [t2 EXCEPT !.scratch_enabled = TRUE,
                       !.task_mem = redirected.task_mem,
                       !.regs = redirected.regs,
                       !.param_list = redirected.param_list]

\* Step 3: execute mutators.
RECURSIVE RunMutators(_, _)
RunMutators(ts, i) ==
    IF i > Len(ts.param_list) THEN ts
    ELSE LET param == ts.param_list[i]
             size == param.num_bytes.incoming_size
             addr == IF ts.scratch_enabled THEN param.scratch ELSE param.dest
             original == read_mem(ts.task_mem, addr, size)
         IN IF param.maybe_mutator = None THEN RunMutators(ts, i + 1)
            ELSE IF param.maybe_mutator = "keeps"
            THEN RunMutators([ts EXCEPT !.param_list[i].maybe_mutator = None], i + 1)
            ELSE RunMutators(
                    [ts EXCEPT !.task_mem = write_mem(@, addr,
                                                [k \in 1..size |-> 179 + k]),
                               !.saved_data = IF ts.scratch_enabled THEN @
                                              ELSE @ \o original],
                    i + 1)

done_preparing(ts, sw) ==
    LET internal == done_preparing_internal(ts, sw)
    IN IF ts.preparation_done THEN ts
       ELSE IF internal.panicked THEN internal
       ELSE RunMutators(internal, 1)

\* ---- the syscall runs in the kernel
\* The address the kernel finds for a parameter's buffer: the argument
\* register, or the pointer as it is now stored in the enclosing buffer.
KernelBuffer(ts, param) ==
    IF param.ptr_in_reg # 0 THEN ts.regs.args[param.ptr_in_reg]
    ELSE IF param.ptr_in_memory # 0
    THEN get_remote_ptr(ts.task_mem,
             IF ts.scratch_enabled
             THEN relocate_pointer_to_scratch(ts.param_list, param.ptr_in_memory)
             ELSE param.ptr_in_memory)
    ELSE param.dest

\* The kernel writes count bytes to every output buffer and then, in a
\* second pass, the length to every length cell.
RECURSIVE KernelWrites(_, _, _, _, _)
KernelWrites(ts, i, m, count, lengths) ==
    IF i > Len(ts.param_list) THEN m
    ELSE LET param == ts.param_list[i]
             n == Min(count, param.num_bytes.incoming_size)
             data == IF param.mode # "In"
                     THEN write_mem(m, KernelBuffer(ts, param),
                                    [k \in 1..n |-> KernelByte(k - 1)])
                     ELSE m
             len == IF param.num_bytes.mem_ptr # 0
                    THEN write_val_mem(m, param.num_bytes.mem_ptr, count,
                                       param.num_bytes.read_size)
                    ELSE m
         IN KernelWrites(ts, i + 1, IF lengths THEN len ELSE data, count, lengths)

\* ---- process_syscall_results
\* What the parameters j..i-1 have taken from the source i shares.
RECURSIVE already_consumed(_, _, _, _)
already_consumed(params, i, actual_sizes, j) ==
    IF j >= i THEN 0
    ELSE (IF is_same_source(params[j].num_bytes, params[i].num_bytes)
          THEN actual_sizes[j] ELSE 0)
         + already_consumed(params, i, actual_sizes, j + 1)

eval_param_size_asserts(params, m, r, i, actual_sizes) ==
    /\ Len(actual_sizes) = i - 1
    /\ eval_asserts(params[i].num_bytes, m, r,
                    already_consumed(params, i, actual_sizes, 1))

eval_param_size(params, m, r, i, actual_sizes) ==
    ParamSize_eval(params[i].num_bytes, m, r,
                   already_consumed(params, i, actual_sizes, 1))

\* Step 1 (scratch enabled): compute actual sizes of all buffers and copy
\* outputs from scratch back to their origin.  acc is
\* [task_mem, actual_sizes, panicked]; data is the scratch area as read
\* before the loop.
RECURSIVE CopyOutputsBack(_, _, _, _)
CopyOutputsBack(ts, i, data, acc) ==
    IF i > Len(ts.param_list) \/ acc.panicked THEN acc
    ELSE LET param == ts.param_list[i]
             ok == eval_param_size_asserts(ts.param_list, acc.task_mem, ts.regs, i,
                                           acc.actual_sizes)
             size == eval_param_size(ts.param_list, acc.task_mem, ts.regs, i,
                                     acc.actual_sizes)
             offset == param.scratch - scratch_ptr
             d == SubSeq(data, offset + 1, offset + size)
         IN IF ~ok THEN [acc EXCEPT !.panicked = TRUE]
            ELSE CopyOutputsBack(ts, i + 1, data,
                    [acc EXCEPT
                        !.actual_sizes = Append(@, size),
                        !.task_mem = IF ts.write_back = "WriteBack"
                                        /\ param.mode \in {"InOut", "Out"}
                                     THEN write_mem(@, param.dest, d) ELSE @])

\* Step 2 (scratch enabled): restore modified in-memory pointers and
\* registers.  acc is [task_mem, regs, memory_cleaned_up].
RECURSIVE RestorePointers(_, _, _)
RestorePointers(params, i, acc) ==
    IF i > Len(params) THEN acc
    ELSE LET param == params[i]
         IN RestorePointers(params, i + 1,
                [task_mem |-> IF param.ptr_in_memory # 0
                              THEN set_remote_ptr(acc.task_mem, param.ptr_in_memory,
                                                  param.dest)
                              ELSE acc.task_mem,
                 regs |-> IF param.ptr_in_reg > 0
                          THEN [acc.regs EXCEPT !.args[param.ptr_in_reg] = param.dest]
                          ELSE acc.regs,
                 memory_cleaned_up |-> acc.memory_cleaned_up \/ param.ptr_in_memory # 0])

\* A step 3 that records the whole of every output buffer.
RECURSIVE RecordOutputs_IncomingSize(_, _, _, _, _, _)
RecordOutputs_IncomingSize(params, i, m, data, actual_sizes, memory_cleaned_up) ==
    IF i > Len(params) THEN <<>>
    ELSE LET param == params[i]
             size == param.num_bytes.incoming_size
             rest == RecordOutputs_IncomingSize(params, i + 1, m, data, actual_sizes,
                                                memory_cleaned_up)
         IN IF param.mode \in {"InOutNoScratch", "InOut", "Out"}
            THEN <<[addr |-> param.dest, data |-> read_mem(m, param.dest, size)]>> \o rest
            ELSE rest

\* record_remote(addr, size) records what tracee memory holds there now,
\* record_local(addr, d) the bytes it is given.
\* Step 3 (scratch enabled): record all output memory areas.
RECURSIVE RecordOutputs(_, _, _, _, _, _)
RecordOutputs(params, i, m, data, actual_sizes, memory_cleaned_up) ==
    IF i > Len(params) THEN <<>>
    ELSE LET param == params[i]
             size == actual_sizes[i]
             offset == param.scratch - scratch_ptr
             rest == RecordOutputs(params, i + 1, m, data, actual_sizes,
                                   memory_cleaned_up)
         IN IF param.mode = "InOutNoScratch"
            THEN <<[addr |-> param.dest, data |-> read_mem(m, param.dest, size)]>> \o rest
            ELSE IF param.mode \in {"InOut", "Out"}
            THEN (IF memory_cleaned_up
                  THEN <<[addr |-> param.dest, data |-> read_mem(m, param.dest, size)]>>
                  ELSE <<[addr |-> param.dest,
                          data |-> SubSeq(data, offset + 1, offset + size)]>>)
                 \o rest
            ELSE rest

\* Scratch disabled, step 1: restore all mutated memory.
RECURSIVE RestoreMutated(_, _)
RestoreMutated(ts, i) ==
    IF i > Len(ts.param_list) \/ ts.panicked THEN ts
    ELSE LET param == ts.param_list[i]
             size == param.num_bytes.incoming_size
         IN IF param.maybe_mutator = None THEN RestoreMutated(ts, i + 1)
            ELSE IF ~(Len(ts.saved_data) >= size) THEN Panic(ts)
            ELSE RestoreMutated(
                    [ts EXCEPT !.task_mem = write_mem(@, param.dest,
                                                SubSeq(ts.saved_data, 1, size)),
                               !.saved_data = SubSeq(@, size + 1, Len(@))],
                    i + 1)

\* Scratch disabled, step 2: record all output memory areas.  acc is
\* [actual_sizes, recorded, panicked].
RECURSIVE RecordAllRemote(_, _, _)
RecordAllRemote(ts, i, acc) ==
    IF i > Len(ts.param_list) \/ acc.panicked THEN acc
    ELSE LET param == ts.param_list[i]
             ok == eval_param_size_asserts(ts.param_list, ts.task_mem, ts.regs, i,
                                           acc.actual_sizes)
             size == eval_param_size(ts.param_list, ts.task_mem, ts.regs, i,
                                     acc.actual_sizes)
         IN IF ~ok THEN [acc EXCEPT !.panicked = TRUE]
            ELSE RecordAllRemote(ts, i + 1,
                    [acc EXCEPT !.actual_sizes = Append(@, size),
                                !.recorded =
                                    Append(@, [addr |-> param.dest,
                                               data |-> read_mem(ts.task_mem,
                                                                 param.dest, size)])])

ApplyEmulatedResult(ts) ==
    IF ts.should_emulate_result
    THEN [ts EXCEPT !.regs.syscall_result = ts.emulated_result]
    ELSE ts

\* The whole scratch area in use, as read before step 1.
ScratchData(ts) == read_mem(ts.task_mem, scratch_ptr, ts.scratch - scratch_ptr)

\* (after_syscall_actions stays empty: nothing here registers one.)
process_syscall_results(ts) ==
    LET data == ScratchData(ts)
        copied == CopyOutputsBack(ts, 1, data,
                      [task_mem |-> ts.task_mem, actual_sizes |-> <<>>,
                       panicked |-> FALSE])
        restored == RestorePointers(ts.param_list, 1,
                        [task_mem |-> copied.task_mem, regs |-> ts.regs,
                         memory_cleaned_up |-> FALSE])
        records == IF ts.write_back = "WriteBack"
                   THEN RecordOutputs(ts.param_list, 1, restored.task_mem, data,
                                      copied.actual_sizes, restored.memory_cleaned_up)
                   ELSE <<>>
        unmutated == RestoreMutated(ts, 1)
        remote == RecordAllRemote(unmutated, 1,
                      [actual_sizes |-> <<>>, recorded |-> unmutated.recorded,
                       panicked |-> FALSE])
    IN IF ~ts.preparation_done THEN Panic(ts)
       ELSE IF ts.scratch_enabled
       THEN (IF copied.panicked THEN Panic([ts EXCEPT !.task_mem = copied.task_mem])
             ELSE ApplyEmulatedResult([ts EXCEPT !.task_mem = restored.task_mem,
                                           !.regs = restored.regs,
                                           !.recorded = @ \o records]))
       ELSE IF unmutated.panicked THEN unmutated
       ELSE IF ~(Len(unmutated.saved_data) = 0) THEN Panic(unmutated)
       ELSE IF remote.panicked THEN Panic(unmutated)
       ELSE ApplyEmulatedResult([unmutated EXCEPT !.recorded = remote.recorded])

\* ---- abort_syscall_results
abort_syscall_results(ts) ==
    LET restored == RestorePointers(ts.param_list, 1,
                        [task_mem |-> ts.task_mem, regs |-> ts.regs,
                         memory_cleaned_up |-> FALSE])
    IN IF ~ts.preparation_done THEN Panic(ts)
       ELSE IF ts.scratch_enabled
       THEN [ts EXCEPT !.task_mem = restored.task_mem, !.regs = restored.regs]
       ELSE RestoreMutated(ts, 1)

\* ---- what a syscall's pre-handler may register
RegParameterCalls ==
    {[arg |-> 1, param_size |-> ParamSize_from(16), mode |-> "InOut", mutator |-> None],
     [arg |-> 2, param_size |-> ParamSize_from(8), mode |-> "Out", mutator |-> None],
     [arg |-> 2, param_size |-> ParamSize_from(16), mode |-> "Out", mutator |-> None],
     [arg |-> 2, param_size |-> from_syscall_result_with_size(8, 8), mode |-> "Out",
      mutator |-> None],
     [arg |-> 2, param_size |-> from_initialized_mem(task_mem, Tracee.buf_a, 4),
      mode |-> "Out", mutator |-> None],
     [arg |-> 2, param_size |-> ParamSize_from(8), mode |-> "In", mutator |-> "rewrites"],
     [arg |-> 2, param_size |-> ParamSize_from(8), mode |-> "In", mutator |-> "keeps"],
     [arg |-> 2, param_size |-> ParamSize_from(8), mode |-> "InOutNoScratch",
      mutator |-> None]}

MemPtrParameterCalls ==
    {[addr_of_buf_ptr |-> Tracee.buf_a_ptr, param_size |-> ParamSize_from(8), mode |-> "Out"],
     [addr_of_buf_ptr |-> Tracee.stray_ptr, param_size |-> ParamSize_from(8), mode |-> "Out"],
     [addr_of_buf_ptr |-> 0, param_size |-> ParamSize_from(8), mode |-> "Out"]}

\* ---- the actions
RegParameter(call) ==
    /\ syscall_pc \in {"preparing", "prepared"}
    /\ preparation_done \/ Len(param_list) < MaxParams
    /\ CommitSyscall(reg_parameter_with_size(CurSyscall, call.arg, call.param_size,
                                              call.mode, call.mutator), syscall_pc)

MemPtrParameter(call) ==
    /\ syscall_pc \in {"preparing", "prepared"}
    /\ preparation_done \/ Len(param_list) < MaxParams
    /\ CommitSyscall(mem_ptr_parameter_with_size(CurSyscall, call.addr_of_buf_ptr,
                                                  call.param_size, call.mode, None),
                     syscall_pc)

EmulateResult(result) ==
    /\ syscall_pc = "preparing"
    /\ ~should_emulate_result
    /\ CommitSyscall(emulate_result(CurSyscall, result), syscall_pc)

DonePreparing(sw) ==
    /\ syscall_pc \in {"preparing", "prepared"}
    /\ CommitSyscall(done_preparing(CurSyscall, sw), "prepared")

\* The kernel runs the syscall; what the registrations returned to the
\* pre-handler is not kept past the entry.
SyscallExecutes(outcome) ==
    /\ syscall_pc = "prepared"
    /\ LET data == KernelWrites(CurSyscall, 1, task_mem, outcome.count, FALSE)
           lengths == KernelWrites(CurSyscall, 1, data, outcome.count, TRUE)
       IN CommitSyscall([CurSyscall EXCEPT
                            !.task_mem = lengths,
                            !.regs.syscall_result = outcome.result,
                            !.returned = 0],
                        "exited")

ProcessSyscallResults ==
    /\ syscall_pc = "exited"
    /\ CommitSyscall(process_syscall_results(CurSyscall), "processed")

AbortSyscallResults ==
    /\ syscall_pc \in {"prepared", "processed"}
    /\ CommitSyscall(abort_syscall_results(CurSyscall), "aborted")

NextScratch ==
    \/ \E call \in RegParameterCalls : RegParameter(call)
    \/ \E call \in MemPtrParameterCalls : MemPtrParameter(call)
    \/ EmulateResult(0)
    \/ \E sw \in {"AllowSwitch", "PreventSwitch"} : DonePreparing(sw)
    \/ \E outcome \in {[result |-> 0 - 1, count |-> 0], [result |-> 4, count |-> 4],
                        [result |-> 8, count |-> 8], [result |-> 12, count |-> 12]} :
           SyscallExecutes(outcome)
    \/ ProcessSyscallResults
    \/ AbortSyscallResults

\* ---- prctl
\* A pre-handler that lets every prctl through as it is.
rec_prepare_syscall_arch_Untouched(ts, done_initial_exec) ==
    [ts |-> [ts EXCEPT !.syscall_entry_registers = ts.regs], s |-> "PreventSwitch"]

\* rec_prepare_syscall_arch for a prctl that rd has not vetoed, of a task
\* that is not descheduled: the state it leaves and the Switchable it
\* returns.  lines 105-107, 143-279
rec_prepare_syscall_arch(ts, done_initial_exec) ==
    LET option == ts.regs.args[1]
        arg2 == ts.regs.args[2]
        t0 == [ts EXCEPT !.syscall_entry_registers = ts.regs]
        \* r.set_arg1_signed(-1); t.set_regs(&r)
        prevented == [t0 EXCEPT !.regs.args[1] = 0 - 1]
        after ==
            CASE option = PR_GET_UNALIGN ->
                     reg_parameter_with_size(t0, 2, ParamSize_from(4), "Out", None)
              [] option = PR_SET_NAME -> t0
              [] option = PR_SET_DUMPABLE ->
                     IF arg2 = 0
                     THEN [emulate_result(prevented, 0) EXCEPT !.dumpable = FALSE]
                     ELSE IF arg2 = 1 THEN [t0 EXCEPT !.dumpable = TRUE]
                     ELSE t0
              [] option = PR_GET_DUMPABLE ->
                     emulate_result(t0, IF t0.dumpable THEN 1 ELSE 0)
              [] option = PR_GET_SECCOMP -> emulate_result(t0, prctl_seccomp_status)
              [] option = PR_GET_TSC ->
                     LET reg == reg_parameter_with_size(emulate_result(prevented, 0), 2,
                                                        ParamSize_from(4),
                                                        "InOutNoScratch", None)
                     IN [reg EXCEPT !.task_mem =
                                       write_val_mem(@, reg.returned, reg.tsc_mode, 4)]
              [] option = PR_SET_TSC ->
                     IF arg2 # PR_TSC_ENABLE /\ arg2 # PR_TSC_SIGSEGV
                     THEN emulate_result(prevented, 0 - EINVAL)
                     ELSE [emulate_result(prevented, 0) EXCEPT !.tsc_mode = arg2]
              [] option = PR_GET_NAME ->
                     reg_parameter_with_size(t0, 2, ParamSize_from(16), "Out", None)
              [] option = PR_SET_NO_NEW_PRIVS ->
                     IF arg2 # 1 THEN [t0 EXCEPT !.expect_errno = EINVAL] ELSE t0
              [] option = PR_SET_SECCOMP ->
                     IF arg2 = SECCOMP_MODE_STRICT THEN t0
                     ELSE IF arg2 = SECCOMP_MODE_FILTER
                     THEN (IF done_initial_exec THEN prevented ELSE t0)
                     ELSE [t0 EXCEPT !.expect_errno = EINVAL]
              [] option = PR_SET_PTRACER -> emulate_result(prevented, 0)
              [] OTHER -> [t0 EXCEPT !.expect_errno = EINVAL]
    IN [ts |-> after, s |-> "PreventSwitch"]

\* rec_prepare_syscall (lines 64-81) for a task that enters prctl: the
\* state of the syscall before is gone, a new TaskSyscallState is made
\* (65-69, 393-423), the pre-handler runs and done_preparing is called
\* with what it returned.
RecPrepareSyscall(call, done_initial_exec) ==
    /\ syscall_pc \in {"preparing", "processed"}
    /\ Len(recorded) <= MaxRecorded
    /\ LET new_ts == [CurSyscall EXCEPT
                         !.regs = Registers(call.option, call.arg2),
                         !.param_list = <<>>, !.scratch = scratch_ptr,
                         !.syscall_entry_registers = Registers(0, 0),
                         !.expect_errno = 0, !.should_emulate_result = FALSE,
                         !.emulated_result = 0, !.switchable = "PreventSwitch",
                         !.write_back = "NoWriteBack", !.preparation_done = FALSE,
                         !.scratch_enabled = FALSE, !.saved_data = <<>>,
                         !.returned = 0]
           s == rec_prepare_syscall_arch(new_ts, done_initial_exec)
       IN IF s.ts.panicked THEN CommitSyscall(s.ts, "prepared")
          ELSE CommitSyscall(done_preparing(s.ts, s.s), "prepared")

\* A tracee calls prctl with an option and a second argument, a number or
\* the address of a buffer; the kernel answers EINVAL to the option -1,
\* else with a failure, a number or bytes in the buffer.
NextPrctl ==
    \/ \E call \in [option : {PR_SET_DUMPABLE, PR_SET_TSC, PR_SET_NO_NEW_PRIVS,
                               PR_SET_SECCOMP, 0},
                     arg2 : 0..3]
                    \cup [option : {PR_GET_DUMPABLE, PR_GET_SECCOMP, PR_SET_PTRACER,
                                    PR_SET_NAME},
                          arg2 : {0}]
                    \cup [option : {PR_GET_TSC, PR_GET_NAME, PR_GET_UNALIGN},
                          arg2 : {Tracee.buf_b}],
             done_initial_exec \in BOOLEAN :
           RecPrepareSyscall(call, done_initial_exec)
    \/ \E outcome \in (IF regs.args[1] = 0 - 1
                        THEN {[result |-> 0 - EINVAL, count |-> 0]}
                        ELSE {[result |-> 0 - EINVAL, count |-> 0],
                              [result |-> 0, count |-> 4],
                              [result |-> 1, count |-> 0]}) :
           SyscallExecutes(outcome)
    \/ ProcessSyscallResults

(***************************************************************************)
(* The whole program: the subsystems share no state, and each has a        *)
(* specification of its own in which the others stand still.               *)
(***************************************************************************)
\* The server as GdbServer::new leaves it, with the default target.
GdbParked ==
    /\ InitGdb
    /\ target = [pid |-> <<>>, require_exec |-> FALSE, event |-> 0]
    /\ keep_listening

\* A task at the entry of a syscall that passes two separate buffers.
ScratchParked ==
    /\ InitScratch
    /\ regs = Registers(Tracee.buf_a, Tracee.buf_b)
    /\ scratch_ptr = SCRATCH_PTR

Init == InitSeccomp /\ GdbParked /\ ScratchParked

SpecSeccomp == Init /\ [][NextSeccomp]_vars

\* rd replay started with any of the targets and flags.
InitReplay == InitSeccomp /\ InitGdb /\ ScratchParked

SpecGdb == InitReplay /\ [][NextGdb]_vars


\* rd record: a task enters a syscall with any of the entry registers.
InitRecord == InitSeccomp /\ GdbParked /\ InitScratch

SpecScratch == InitRecord /\ [][NextScratch]_vars

\* A debugging session that is handed break statuses.
InitStops == InitSeccomp /\ GdbDebugging /\ ScratchParked

SpecStops == InitStops /\ [][NextStops]_vars

\* A debugging session that is asked what does not resume the replay.
SpecQueries == InitStops /\ [][NextQueries]_vars

\* rd replay started with any of the connection flags; clients come and go.
InitServe ==
    InitSeccomp /\ (\E fl \in LaunchFlags : ReplayStarted(fl)) /\ ScratchParked

SpecServe == InitServe /\ [][NextServe]_vars

\* A rewriter that is handed one new verdict after the other.
SpecRegister == Init /\ [][RegisterNewVerdict]_vars

\* A task that makes one prctl call after the other while it is recorded.
SpecPrctl == Init /\ [][NextPrctl]_vars
(***************************************************************************)
(* Claims about the seccomp filter rewriter.                               *)
(***************************************************************************)
\* The handler patched the user program and executed the install remotely.
PatchedInstallDone == seccomp_pc = "done" /\ remote_syscall.arg3 = REMOTE_PROG_PTR

\* Position in the installed program of the user's instruction j.
InstalledAt(j) == installed_prog.filter[Len(installed_prog.filter) - Len(sc_mem.prog) + j]

\* A BPF_RET instruction whose k is not SECCOMP_RET_ALLOW.
IsNonAllowReturn(u) == BitAnd(u.code, 7) = 6 /\ u.k # SECCOMP_RET_ALLOW

\* k is SECCOMP_RET_TRACE | i for a 16-bit i that maps back to verdict v.
IsTraceOf(k, v) ==
    LET i == k - SECCOMP_RET_TRACE
    IN /\ i \in 0..SECCOMP_RET_DATA
       /\ k = BitOr(SECCOMP_RET_TRACE, i)
       /\ map_filter_data_to_real_result(i) = [status |-> "true", result |-> <<v>>]

\* C1: every BPF_RET instruction of a processed user program whose constant
\* is a verdict v other than SECCOMP_RET_ALLOW is installed with
\* k = SECCOMP_RET_TRACE | i, where i is a 16-bit data value that
\* map_filter_data_to_real_result maps back to v; this stays true of every
\* filter installed earlier on the same rewriter, and on every syscall from
\* user code for which the user filter returns v the installed filter returns
\* such a TRACE value.
C1_NonAllowBecomesTrace ==
    /\ PatchedInstallDone =>
          /\ \A j \in 1..Len(sc_mem.prog) :
                 IsNonAllowReturn(sc_mem.prog[j]) =>
                     IsTraceOf(InstalledAt(j).k, sc_mem.prog[j].k)
          /\ \A x \in SeccompInputs :
                 (x.ip = USER_IP /\ FilterResult(sc_mem.prog, x) \in Verdicts) =>
                     IsTraceOf(FilterResult(installed_prog.filter, x),
                               FilterResult(sc_mem.prog, x))
    /\ \A r \in installed_rets : IsTraceOf(r[2], r[1])

\* C1 witness: the scenario's filter, whose only return is 0x30000, is
\* installed after another verdict was registered.
C1_Witness ==
    /\ PatchedInstallDone
    /\ sc_mem.prog = << Insn(BPF_RET + BPF_K, 0, 0, RET_0x30000) >>
    /\ index_to_result = << SECCOMP_RET_KILL, RET_0x30000 >>
    /\ <<SECCOMP_RET_KILL, SECCOMP_RET_TRACE + BASE_CUSTOM_DATA>> \in installed_rets

C8_MapOfIndexReturnsVerdict ==
    \A v \in DOMAIN result_to_index :
        map_filter_data_to_real_result(result_to_index[v])
            = [status |-> "true", result |-> <<v>>]

EnabledWhenRecording(e) == e.enabled \in {"RecordingOnly", "RecordingAndReplay"}

\* The rule sets a program begins with: the callsites of its leading
\* "load ip, compare, return ALLOW" triples.
RECURSIVE LeadingCallsites(_, _)
LeadingCallsites(prog, n) ==
    IF n = 0 THEN <<>>
    ELSE Append(LeadingCallsites(prog, n - 1), prog[3 * n - 1].k)

\* C10 (as stated): the installed program begins with one allow rule for
\* each rd-page syscall entry that is privileged and enabled, and for no
\* other entry.
C10_RulesForPrivilegedAndEnabled ==
    PatchedInstallDone =>
        LET n == (Len(installed_prog.filter) - Len(sc_mem.prog)) \div 3
            rules == LeadingCallsites(installed_prog.filter, n)
        IN {rules[i] : i \in 1..n} =
               {rd_page_syscall_exit_point(e.traced, e.privileged, e.enabled) :
                    e \in {rd_page_syscalls[j] : j \in
                              {i \in 1..Len(rd_page_syscalls) :
                                  /\ rd_page_syscalls[i].privileged = "Privileged"
                                  /\ EnabledWhenRecording(rd_page_syscalls[i])}}}

\* C10 (amended): the installed program begins with one rule allowing the
\* callsite of each privileged rd-page syscall entry, whatever its enabled
\* mode, in table order and for no other entry; the rewritten user
\* instructions follow, and the installed sock_fprog length is the number of
\* prepended instructions plus the user program length.
C10_RulesForPrivileged ==
    PatchedInstallDone =>
        LET n == (Len(installed_prog.filter) - Len(sc_mem.prog)) \div 3
            rules == LeadingCallsites(installed_prog.filter, n)
            priv == {i \in 1..Len(rd_page_syscalls) :
                        rd_page_syscalls[i].privileged = "Privileged"}
        IN /\ installed_prog.len = 3 * n + Len(sc_mem.prog)
           /\ installed_prog.len = Len(installed_prog.filter)
           /\ n = Cardinality(priv)
           /\ \A i \in 1..n :
                  /\ installed_prog.filter[3 * i - 2] = Insn(BPF_LD_W_ABS, 0, 0, SECCOMP_DATA_IP)
                  /\ installed_prog.filter[3 * i - 1].code = BPF_JEQ_K
                  /\ installed_prog.filter[3 * i] = Insn(BPF_RET + BPF_K, 0, 0, SECCOMP_RET_ALLOW)
           /\ {rules[i] : i \in 1..n} =
                  {rd_page_syscall_exit_point(rd_page_syscalls[j].traced,
                                              rd_page_syscalls[j].privileged,
                                              rd_page_syscalls[j].enabled) : j \in priv}
           /\ \A i, j \in 1..n : i < j => rules[i] < rules[j]
           /\ \A x \in SeccompInputs :
                  x.ip \in {rules[i] : i \in 1..n} =>
                      FilterResult(installed_prog.filter, x) = SECCOMP_RET_ALLOW

\* C10 witness: a two-instruction user program is installed behind the
\* prepended rules.
C10_Witness ==
    /\ PatchedInstallDone
    /\ Len(sc_mem.prog) = 2
    /\ installed_prog.len > Len(sc_mem.prog)
    /\ sc_regs.syscall_result = 0

\* install_patched_seccomp_filter runs to its end or to a failed assertion.
InstallStep == seccomp_pc = "entered" /\ seccomp_pc' # "entered"

\* C11: when the sock_fprog header at arg3 or the instruction array cannot
\* be read, the original syscall is re-issued with the original number and
\* the original arg1, arg2 and arg3, its failing return value becomes the
\* syscall result, and result_to_index, index_to_result and every task's
\* seccomp status stay as they are; nothing is installed.
C11_UnreadableProgramPassesThrough ==
    [][(InstallStep /\ (~sc_mem.hdr_ok \/ ~sc_mem.code_ok)) =>
          /\ remote_syscall' = [no |-> sc_regs.original_syscallno, arg1 |-> sc_regs.arg1,
                                arg2 |-> sc_regs.arg2, arg3 |-> sc_regs.arg3]
          /\ sc_regs'.syscall_result < 0
          /\ sc_regs' = [sc_regs EXCEPT !.syscall_result = sc_regs'.syscall_result]
          /\ result_to_index' = result_to_index
          /\ index_to_result' = index_to_result
          /\ prctl_seccomp_status' = prctl_seccomp_status
          /\ installed_prog' = installed_prog]_vars

\* C11 witness: after a successful install registered a verdict, a seccomp
\* call whose instruction array is unreadable was passed through and failed
\* with EFAULT.
C11_Witness ==
    /\ seccomp_pc = "done"
    /\ sc_mem.hdr_ok /\ ~sc_mem.code_ok
    /\ remote_syscall = [no |-> SYS_seccomp, arg1 |-> SECCOMP_SET_MODE_FILTER,
                         arg2 |-> SECCOMP_FILTER_FLAG_TSYNC, arg3 |-> USER_PROG_PTR]
    /\ sc_regs.syscall_result = -EFAULT
    /\ Len(index_to_result) > 0
    /\ prctl_seccomp_status["t3"] = 2
    /\ prctl_seccomp_status["t1"] = 0

\* The remotely executed install syscall succeeded.
InstallSucceeded ==
    /\ seccomp_pc' = "done"
    /\ remote_syscall'.arg3 = REMOTE_PROG_PTR
    /\ sc_regs'.syscall_result >= 0

\* C12: the install marks the calling task seccomp-active iff the remotely
\* executed install syscall succeeded; when it succeeded and arg2 includes
\* SECCOMP_FILTER_FLAG_TSYNC every task of the caller's thread group is
\* marked too; when it failed no task's seccomp status changes.
C12_ActiveIffInstallSucceeded ==
    [][InstallStep =>
          /\ InstallSucceeded =>
                /\ prctl_seccomp_status'[sc_regs.task] = 2
                /\ BitAnd(sc_regs.arg2, SECCOMP_FILTER_FLAG_TSYNC) # 0 =>
                       \A tt \in RecTasks :
                           ThreadGroupOf(tt) = ThreadGroupOf(sc_regs.task) =>
                               prctl_seccomp_status'[tt] = 2
          /\ ~InstallSucceeded => prctl_seccomp_status' = prctl_seccomp_status
          /\ \A tt \in RecTasks :
                 prctl_seccomp_status'[tt] # prctl_seccomp_status[tt] =>
                     /\ InstallSucceeded
                     /\ prctl_seccomp_status'[tt] = 2]_vars

\* C12 witness: t1 installed a filter with seccomp(.., TSYNC, ..): t1 and its
\* sibling t2 are active, t3 of the other thread group is not.
C12_Witness ==
    /\ PatchedInstallDone
    /\ sc_regs.task = "t1"
    /\ sc_regs.original_syscallno = SYS_seccomp
    /\ sc_regs.arg2 = SECCOMP_FILTER_FLAG_TSYNC
    /\ sc_regs.syscall_result = 0
    /\ prctl_seccomp_status = [t \in RecTasks |-> IF t = "t3" THEN 0 ELSE 2]

\* A BPF_RET instruction that returns the A or X register.
IsRegisterReturn(u) == BitAnd(u.code, 7) = 6 /\ BitAnd(u.code, 24) # 0

\* C13: a readable user program with a BPF_RET instruction whose value is
\* not BPF_K ends install_patched_seccomp_filter in a failed assertion,
\* also when the instruction is never reached or follows other returns;
\* no remote call is made and no such program is ever installed.
C13_RegisterReturnIsFatal ==
    /\ [][(InstallStep /\ sc_mem.hdr_ok /\ sc_mem.code_ok
              /\ \E j \in 1..Len(sc_mem.prog) : IsRegisterReturn(sc_mem.prog[j])) =>
             /\ seccomp_pc' = "aborted"
             /\ remote_syscall' = remote_syscall
             /\ installed_prog' = installed_prog
             /\ prctl_seccomp_status' = prctl_seccomp_status]_vars
    /\ [](\A j \in 1..Len(installed_prog.filter) :
              ~IsRegisterReturn(installed_prog.filter[j]))

\* C13 witness: the recorder stopped on a program whose register return
\* follows a constant return, with nothing installed for it.
C13_Witness ==
    /\ seccomp_pc = "aborted"
    /\ sc_mem.prog = << Insn(BPF_RET + BPF_K, 0, 0, SECCOMP_RET_KILL),
                        Insn(BPF_RET_A, 0, 0, 0) >>
    /\ installed_prog.len = 0
    /\ remote_syscall.no = 0



\* every verdict a return of the program under installation gives has an index
VerdictsKnown ==
    /\ sc_mem.hdr_ok /\ sc_mem.code_ok
    /\ \A j \in 1..Len(sc_mem.prog) :
           IsNonAllowReturn(sc_mem.prog[j]) => sc_mem.prog[j].k \in DOMAIN result_to_index

(***************************************************************************)
(* C35: the verdict tables only grow: an install keeps every entry of      *)
(* index_to_result at its index and every index of result_to_index, and    *)
(* adds new verdicts at the end.  Installing a filter whose verdicts all   *)
(* have an index leaves both tables as they are, and a verdict is          *)
(* rewritten to the same data value in every filter that returns it.       *)
(***************************************************************************)
C35_TablesAppendOnly ==
    /\ [][/\ Len(index_to_result') >= Len(index_to_result)
          /\ SubSeq(index_to_result', 1, Len(index_to_result)) = index_to_result
          /\ \A v \in DOMAIN result_to_index :
                 v \in DOMAIN result_to_index' /\ result_to_index'[v] = result_to_index[v]]_vars
    /\ [][InstallStep /\ VerdictsKnown =>
              UNCHANGED <<result_to_index, index_to_result>>]_vars
    /\ [](\A r, s \in installed_rets : r[1] = s[1] => r[2] = s[2])

\* C35 witness: a filter that returns the verdict registered first is
\* installed after a second verdict was registered.
C35_Witness ==
    /\ PatchedInstallDone
    /\ Len(index_to_result) = 2
    /\ Len(sc_mem.prog) = 1
    /\ IsNonAllowReturn(sc_mem.prog[1])
    /\ sc_mem.prog[1].k = index_to_result[1]
    /\ <<index_to_result[1], SECCOMP_RET_TRACE + BASE_CUSTOM_DATA>> \in installed_rets

(***************************************************************************)
(* C36: the data value of every rewritten return is BASE_CUSTOM_DATA plus  *)
(* an index, at least 0x100 and below 0xFFFF: it fits the 16 bits of       *)
(* SECCOMP_RET_DATA, the rewritten k is SECCOMP_RET_TRACE with that value  *)
(* in its data bits, and the index stored is a u16.  With no data value    *)
(* left, registering one more verdict fails an assertion and adds nothing. *)
(* map_filter_data_to_real_result answers false and writes no result for   *)
(* every value below 0x100.                                                *)
(***************************************************************************)
C36_DataFitsSixteenBits ==
    /\ [](registration.status = "ok" =>
              LET data == BASE_CUSTOM_DATA + registration.index
              IN /\ data >= 256 /\ data < 65535
                 /\ registration.index \in 0..65535
                 /\ BitAnd(registration.k, SECCOMP_RET_DATA) = data
                 /\ registration.k - data = SECCOMP_RET_TRACE)
    /\ [](BASE_CUSTOM_DATA + registration.len <= SECCOMP_RET_DATA)
    /\ [][BASE_CUSTOM_DATA + registration.len = SECCOMP_RET_DATA =>
              /\ registration'.status = "assert_full"
              /\ registration'.len = registration.len
              /\ registration'.k = registration.k]_vars
    /\ [](\A value \in 0..255 :
              map_filter_data_to_real_result(value) = [status |-> "false", result |-> <<>>])

\* C36 witness: the last data value, 0xFFFE, has been given out and one
\* more verdict has failed the assertion.
C36_Witness ==
    /\ registration.status = "assert_full"
    /\ BASE_CUSTOM_DATA + registration.len = SECCOMP_RET_DATA
    /\ registration.k = SECCOMP_RET_TRACE + 65534

(***************************************************************************)
(* Claims about GdbServer::restart_session, checked under SpecGdb.         *)
(***************************************************************************)
\* The step is restart_session handling req, and it returned to the debug
\* loop: no other step leaves a DREQ_RESTART as the request handled last.
RestartHandled(req) ==
    /\ gdb_pc = "debugging"
    /\ gdb_pc' = "debugging"
    /\ gdb_req' = req

\* The request names a checkpoint id the table does not hold.
UnknownCheckpoint(req) ==
    req.kind = "RestartFromCheckpoint" /\ req.param \notin DOMAIN checkpoints

\* The explicit entries of the checkpoints table whose mark is m.
ExplicitEntriesAt(m) ==
    {id \in DOMAIN checkpoints :
        checkpoints[id].is_explicit = "Explicit" /\ checkpoints[id].mark = m}

\* C2: a DREQ_RESTART of kind RestartFromCheckpoint whose id is not in the
\* checkpoints table sends notify_restart_failed and changes no state: the
\* timeline position, the registered breakpoints and watchpoints,
\* in_debuggee_end_state, interrupt_pending, last_continue_tuid,
\* last_query_tuid, target, debugger_restart_checkpoint and the checkpoints
\* table are the same after the request as before it.
C2_FailedRestartChangesNothing ==
    [][\A req \in RestartRequests :
          (RestartHandled(req) /\ UnknownCheckpoint(req))
          => /\ gdb_reply' = "restart_failed"
             /\ UNCHANGED <<timeline_pos, breakpoints, watchpoints,
                            in_debuggee_end_state, interrupt_pending,
                            last_continue_tuid, last_query_tuid, target,
                            debugger_restart_checkpoint, checkpoints>>]_vars

\* C4: after any sequence of debugger activations and restarts, every
\* checkpoint of the checkpoints table that is flagged Explicit still has
\* its mark pinned in the timeline: a mark holds at least one pin for every
\* explicit table entry that refers to it, so no restart_session call has
\* released a pin that belongs to a table entry.
C4_TableCheckpointsStayPinned ==
    \A m \in Positions : explicit_pins[m] >= Cardinality(ExplicitEntriesAt(m))

\* A restart has released the pin of a restart checkpoint whose mark an
\* explicit table entry shares, and the entry is still pinned.
C4_Witness ==
    /\ gdb_pc = "debugging"
    /\ gdb_req.kind = "RestartFromPrevious"
    /\ debugger_restart_checkpoint # <<>>
    /\ debugger_restart_checkpoint[1].is_explicit = "Explicit"
    /\ ExplicitEntriesAt(debugger_restart_checkpoint[1].mark) # {}
    /\ explicit_pins[debugger_restart_checkpoint[1].mark] >= 2

\* C5: after a DREQ_RESTART of kind RestartFromCheckpoint with an id that is
\* in the checkpoints table, the timeline's current mark equals
\* checkpoints[id].mark, last_continue_tuid and last_query_tuid both equal
\* the tuid stored in that checkpoint, debugger_restart_checkpoint is that
\* checkpoint, and the checkpoints table is unchanged.
C5_RestartFromCheckpointRestores ==
    [][\A req \in RestartRequests :
          (/\ RestartHandled(req)
           /\ req.kind = "RestartFromCheckpoint"
           /\ req.param \in DOMAIN checkpoints)
          => /\ mark(timeline_pos') = checkpoints[req.param].mark
             /\ last_continue_tuid' = checkpoints[req.param].last_continue_tuid
             /\ last_query_tuid' = checkpoints[req.param].last_continue_tuid
             /\ debugger_restart_checkpoint' = Some(checkpoints[req.param])
             /\ checkpoints' = checkpoints]_vars

\* A restart from a table checkpoint has taken the server back to a state
\* other than the one the debugger was activated in, with another task.
C5_Witness ==
    /\ gdb_pc = "debugging"
    /\ gdb_req.kind = "RestartFromCheckpoint"
    /\ gdb_reply = "none"
    /\ gdb_req.param \in DOMAIN checkpoints
    /\ mark(timeline_pos) = checkpoints[gdb_req.param].mark
    /\ debugger_restart_checkpoint = Some(checkpoints[gdb_req.param])
    /\ last_continue_tuid = checkpoints[gdb_req.param].last_continue_tuid
    /\ target.event # timeline_pos
    /\ last_continue_tuid # Trace[target.event].task

\* C6, as claimed: after restart_session has handled a DREQ_RESTART of any
\* of the three kinds, interrupt_pending is true in all cases.
C6_InterruptPendingAfterAnyRestart ==
    [][\A req \in RestartRequests : RestartHandled(req) => interrupt_pending']_vars

\* C6, amended: after restart_session has handled a DREQ_RESTART that does
\* not fail (RestartFromPrevious, RestartFromEvent, or RestartFromCheckpoint
\* with an id of the table) interrupt_pending is true; a RestartFromCheckpoint
\* with an unknown id leaves interrupt_pending as it was.
C6_InterruptPendingAfterRestart ==
    [][\A req \in RestartRequests :
          RestartHandled(req)
          => IF UnknownCheckpoint(req)
             THEN interrupt_pending' = interrupt_pending
             ELSE interrupt_pending']_vars

\* A restart at an event has replayed to its target and left the interrupt
\* pending for the first continue.
C6_Witness ==
    /\ gdb_pc = "debugging"
    /\ gdb_req.kind = "RestartFromEvent"
    /\ gdb_reply = "none"
    /\ interrupt_pending
    /\ ~in_debuggee_end_state

\* The states a replay session can be in when at_target() looks at it.
SessionStates ==
    [done_initial_exec : BOOLEAN, task : {None, "t1"}, tgid : {"tg1", "tg2"},
     execed : BOOLEAN, can_add_checkpoint : BOOLEAN, in_execution : BOOLEAN]

\* The seven conditions of at_target().
AllTargetConditions(session, time, tgt) ==
    /\ session.done_initial_exec
    /\ session.task # None
    /\ session.can_add_checkpoint
    /\ time > tgt.event
    /\ (tgt.pid = <<>> \/ session.tgid = tgt.pid[1])
    /\ (~tgt.require_exec \/ session.execed)
    /\ ~session.in_execution

\* C14, as claimed: at_target() is true iff all seven conditions hold or
\* stop_replaying_to_target is set.
C14_AtTargetIffAllOrInterrupted ==
    /\ at_target(Cur) = (\/ AllTargetConditions(Trace[timeline_pos], timeline_pos, target)
                         \/ stop_replaying_to_target)
    /\ \A session \in SessionStates :
           at_target_in(session, timeline_pos, target, stop_replaying_to_target)
               = (\/ AllTargetConditions(session, timeline_pos, target)
                  \/ stop_replaying_to_target)

\* A debugger can attach to the session state, and the target is reached
\* or the replay to it was interrupted.
TargetReached(session, time, tgt, stop) ==
    /\ session.done_initial_exec
    /\ session.task # None
    /\ session.can_add_checkpoint
    /\ stop \/ AllTargetConditions(session, time, tgt)

\* C14, amended: at_target() is true iff the session has done its initial
\* exec, there is a current task, can_add_checkpoint() is true, and either
\* stop_replaying_to_target is set or the frame time exceeds target.event,
\* target.pid is unset or the task's tgid, target.require_exec is false or
\* the task has execed, and the current step is not in execution.
C14_AtTargetIffAllOrInterruptedWhereAttachable ==
    /\ at_target(Cur) = TargetReached(Trace[timeline_pos], timeline_pos, target,
                                      stop_replaying_to_target)
    /\ \A session \in SessionStates :
           at_target_in(session, timeline_pos, target, stop_replaying_to_target)
               = TargetReached(session, timeline_pos, target, stop_replaying_to_target)

\* C14 witness: the replay to a later target event was interrupted, and
\* serve_replay stopped at the first state a debugger can attach to.
C14_Witness ==
    /\ gdb_pc = "awaiting"
    /\ stop_replaying_to_target
    /\ at_target(Cur)
    /\ timeline_pos <= target.event

C16_DebuggeeTguidAssignedOnce ==
    /\ [][debuggee_tguid' # debuggee_tguid =>
             /\ gdb_pc = "replaying" /\ gdb_pc' = "awaiting"
             /\ debuggee_tguid = None
             /\ debuggee_tguid' = Trace[timeline_pos'].tgid]_vars
    /\ [][(gdb_pc = "replaying" /\ gdb_pc' = "awaiting") =>
             debuggee_tguid' # debuggee_tguid]_vars
    /\ [](gdb_pc \in {"awaiting", "debugging"} => debuggee_tguid # None)

\* C16 witness: the debugger was activated again in a task of another thread
\* group (the target names that group now) and the debuggee is still the
\* first one.
C16_Witness ==
    /\ gdb_pc = "debugging"
    /\ target.pid # <<>>
    /\ target.pid[1] # debuggee_tguid
    /\ debuggee_tguid # None

\* The resume requests and connection features maybe_notify_stop is called with.
Resumes == {Cont("RunForward"), Cont("RunBackward")}

\* The session's next step is the exit of a successful execve.
InExec(session) == session.task # None /\ session.step = "execve_exit"

\* A reason to report a stop: one of the five of the stop notification.
ReportableReason(break_status, session, features_reverse_execution) ==
    \/ break_status.watchpoints_hit # <<>>
    \/ break_status.breakpoint_hit
    \/ break_status.singlestep_complete
    \/ break_status.signal # <<>>
    \/ (break_status.task_exit /\ break_status.last_thread /\ features_reverse_execution)
    \/ InExec(session)

\* The task the stop is on: the exec-ing task, else the break status's task.
StopTask(break_status, session) ==
    IF InExec(session) THEN [task |-> session.task, tgid |-> session.tgid]
    ELSE [task |-> break_status.task, tgid |-> break_status.tgid]

\* C17: maybe_notify_stop sends notify_stop(threadid, signo, watch_addr) iff
\* there is a reportable stop reason and the thread group of the stop's task
\* is debuggee_tguid; when it sends, last_continue_tuid and last_query_tuid
\* become the tuid of that task; when it does not send, nothing is sent and
\* both stay as they are.
C17_StopSentIffReasonInDebuggee ==
    \A req \in Resumes, break_status \in BreakStatuses, rev \in BOOLEAN :
        LET g == maybe_notify_stop(Cur, req, break_status, rev)
            session == Trace[timeline_pos]
            t == StopTask(break_status, session)
        IN IF ReportableReason(break_status, session, rev) /\ t.tgid = debuggee_tguid
           THEN /\ g.stop # <<>>
                /\ g.stop[1].threadid = [pid |-> t.tgid, tid |-> t.task]
                /\ g.last_continue_tuid = t.task
                /\ g.last_query_tuid = t.task
           ELSE /\ g.stop = <<>>
                /\ g.reply = "none"
                /\ g.last_continue_tuid = last_continue_tuid
                /\ g.last_query_tuid = last_query_tuid

\* C17 witness: a stop was sent for a task of the debuggee's thread group
\* other than the one the debugger was activated on, and both tuids are that
\* task's now.
C17_Witness ==
    /\ gdb_pc = "debugging"
    /\ gdb_stop # <<>>
    /\ gdb_stop[1].threadid.pid = debuggee_tguid
    /\ gdb_stop[1].tuid # Trace[target.event].task
    /\ last_continue_tuid = gdb_stop[1].tuid
    /\ last_query_tuid = gdb_stop[1].tuid

\* The stop is a last-thread exit on a connection with reverse execution, or
\* an exec: the cases in which the signal of the stop is not that of the
\* break status's watchpoint, breakpoint, singlestep or signal.
ExitOrExec(break_status, session, features_reverse_execution) ==
    \/ (break_status.task_exit /\ break_status.last_thread /\ features_reverse_execution)
    \/ InExec(session)

C20_ExecStopIsSilentOnCurrentTask ==
    \A req \in Resumes, break_status \in BreakStatuses, rev \in BOOLEAN :
        LET g == maybe_notify_stop(Cur, req, break_status, rev)
            session == Trace[timeline_pos]
        IN InExec(session) =>
             IF session.tgid = debuggee_tguid
             THEN /\ g.stop # <<>>
                  /\ g.stop[1].signo = 0
                  /\ g.stop[1].stop_siginfo = [si_signo |-> 0, si_code |-> 0]
                  /\ g.stop[1].threadid = [pid |-> session.tgid, tid |-> session.task]
                  /\ g.last_continue_tuid = session.task
                  /\ g.last_query_tuid = session.task
             ELSE g.stop = <<>>

\* C20 witness: at the exit of an execve a silent stop was reported on the
\* exec-ing task although the break status carried a watchpoint hit.
C20_Witness ==
    /\ gdb_pc = "debugging"
    /\ InExec(Trace[timeline_pos])
    /\ gdb_stop # <<>>
    /\ gdb_stop[1].signo = 0
    /\ gdb_stop[1].tuid = Trace[timeline_pos].task
    /\ gdb_stop[1].watch_addr # 0

\* The step into frame p was the exit of the last thread of the thread
\* group the target names.
LastThreadExitInto(p, tgt) ==
    /\ p > 1
    /\ Trace[p - 1].exit = "last_thread"
    /\ tgt.pid # <<>>
    /\ Trace[p - 1].tgid = tgt.pid[1]

\* C21: a DREQ_RESTART of kind RestartFromEvent(n) sets target.event to
\* min(n, final_event - 1), seeks to before that event and steps forward, at
\* least once, to the first state reached by the exit of the last thread of
\* the target pid's thread group or in which at_target() holds, with
\* stop_replaying_to_target false; afterwards in_debuggee_end_state tells
\* whether it stopped for the exit, target.pid is what it was, and
\* activate_debugger has run in the state reached.
C21_RestartFromEventReplaysToTarget ==
    [][\A req \in RestartRequests :
          (RestartHandled(req) /\ req.kind = "RestartFromEvent")
          => LET event == IF req.param < final_event - 1 THEN req.param
                          ELSE final_event - 1
                 tgt == [target EXCEPT !.event = event]
                 from == seek_to_before_event(event)
                 stops == {p \in (from + 1)..TraceEnd :
                              \/ LastThreadExitInto(p, tgt)
                              \/ TargetReached(Trace[p], p, tgt, FALSE)}
             IN /\ stops # {}
                /\ timeline_pos' \in stops
                /\ \A p \in stops : timeline_pos' <= p
                /\ in_debuggee_end_state' = LastThreadExitInto(timeline_pos', tgt)
                /\ ~stop_replaying_to_target'
                /\ target' = [pid |-> target.pid, require_exec |-> FALSE,
                              event |-> timeline_pos']
                /\ last_query_tuid' = Trace[timeline_pos'].task
                /\ last_continue_tuid' = Trace[timeline_pos'].task
                /\ debugger_restart_checkpoint' # <<>>
                /\ debugger_restart_checkpoint'[1].mark = mark(timeline_pos')]_vars

\* C21 witness: a restart at the largest event, clamped to final_event - 1,
\* has stopped at the exit of the debuggee's last thread, in a state that
\* cannot be checkpointed.
C21_Witness ==
    /\ gdb_pc = "debugging"
    /\ gdb_req.kind = "RestartFromEvent"
    /\ gdb_req.param = FrameTimeMax
    /\ in_debuggee_end_state
    /\ ~stop_replaying_to_target
    /\ target.event = timeline_pos
    /\ explicit_pins[timeline_pos] = 0

\* activate_debugger has run in this step: for a new connection, or at the
\* end of a restart at an event.
DebuggerActivated ==
    \/ (gdb_pc = "awaiting" /\ gdb_pc' = "debugging")
    \/ \E req \in RestartRequests : RestartHandled(req) /\ req.kind = "RestartFromEvent"

\* C22: after activate_debugger, debugger_restart_checkpoint is a checkpoint
\* whose mark is the timeline's current mark; it is Explicit, and the mark
\* has one pin more, iff can_add_checkpoint() holds there, else it is
\* NotExplicit, nothing is pinned and the activation completes all the same;
\* last_query_tuid and last_continue_tuid are the current task, target.pid
\* its tgid, target.require_exec false and target.event the frame time.
C22_ActivationSetsRestartCheckpoint ==
    [][DebuggerActivated =>
         LET pos == timeline_pos'
             t == Trace[pos]
         IN /\ gdb_pc' = "debugging"
            /\ debugger_restart_checkpoint' =
                   Some([mark |-> mark(pos), last_continue_tuid |-> t.task,
                         is_explicit |-> IF t.can_add_checkpoint THEN "Explicit"
                                         ELSE "NotExplicit"])
            /\ explicit_pins' = IF t.can_add_checkpoint
                                THEN [explicit_pins EXCEPT ![pos] = @ + 1]
                                ELSE explicit_pins
            /\ last_query_tuid' = t.task
            /\ last_continue_tuid' = t.task
            /\ target' = [pid |-> Some(t.tgid), require_exec |-> FALSE,
                          event |-> pos]]_vars

\* C22 witness: the debugger was activated in a state that cannot be
\* checkpointed: the restart checkpoint is a plain mark, nothing is pinned
\* there and the debugger is active.
C22_Witness ==
    /\ gdb_pc = "debugging"
    /\ gdb_req = NoRequest
    /\ gdb_stop = <<>>
    /\ ~can_add_checkpoint(timeline_pos)
    /\ debugger_restart_checkpoint # <<>>
    /\ debugger_restart_checkpoint[1].is_explicit = "NotExplicit"
    /\ debugger_restart_checkpoint[1].mark = mark(timeline_pos)
    /\ explicit_pins[timeline_pos] = 0
    /\ target.event = timeline_pos
    /\ breakpoints = {}

(***************************************************************************)
(* C23, as stated: a breakpoint with a non-empty condition list fires iff  *)
(* ALL of its expressions evaluate to nonzero or fail to evaluate, so not  *)
(* when some expression evaluates successfully to zero; a request with no  *)
(* conditions always fires.  The loop returns true at the first expression *)
(* that fails or is nonzero: a list of a zero and a nonzero expression     *)
(* fires.                                                                  *)
(***************************************************************************)
C23_FiresIffAllExpressionsHold ==
    gdb_req.type_ = "DREQ_SET_SW_BREAK" =>
        LET c == gdb_req.watch.conditions
        IN gdb_data = Some(\A n \in DOMAIN c : ~c[n].ok \/ c[n].i # 0)

(***************************************************************************)
(* C23, amended: a breakpoint with a non-empty condition list fires iff AT *)
(* LEAST ONE of its expressions evaluates to nonzero or fails to evaluate; *)
(* it does not fire only when every expression evaluates successfully to   *)
(* zero.  A request with no conditions yields no condition and always      *)
(* fires.                                                                  *)
(***************************************************************************)
C23_FiresIffSomeExpressionHolds ==
    gdb_req.type_ = "DREQ_SET_SW_BREAK" =>
        LET c == gdb_req.watch.conditions
        IN /\ (c = <<>>) = (breakpoint_condition(gdb_req) = <<>>)
           /\ gdb_data = Some(\/ c = <<>>
                              \/ \E n \in DOMAIN c : ~c[n].ok \/ c[n].i # 0)

\* A breakpoint whose first condition evaluated to zero and whose second to
\* nonzero has fired.
C23_Witness ==
    /\ gdb_req.type_ = "DREQ_SET_SW_BREAK"
    /\ gdb_req.watch.conditions = <<[ok |-> TRUE, i |-> 0], [ok |-> TRUE, i |-> 1]>>
    /\ gdb_data = Some(TRUE)

C25_RegsReplyCoversZeroToEnd ==
    gdb_req.type_ = "DREQ_GET_REGS" =>
        LET q == gdb_data[1]
            avx == (q.cpu_features \div CPU_AVX) % 2 = 1
            end == CASE q.arch = "X86" /\ ~avx -> DREG_ORIG_EAX
                     [] q.arch = "X86" /\ avx -> DREG_YMM7H
                     [] q.arch = "X64" /\ ~avx -> DREG_ORIG_RAX
                     [] q.arch = "X64" /\ avx -> DREG_64_YMM15H
        IN /\ Len(q.reply) = end + 1
           /\ \A n \in 1..(end + 1) :
                  /\ q.reply[n].name = n - 1
                  /\ q.reply[n].defined = (n - 1 \notin q.unreadable)

\* An x86-64 reply with AVX that runs to DREG_64_YMM15H and holds the
\* unreadable registers 20 and DREG_64_YMM15H as undefined.
C25_Witness ==
    /\ gdb_req.type_ = "DREQ_GET_REGS"
    /\ gdb_data[1].arch = "X64"
    /\ gdb_data[1].cpu_features = 3
    /\ gdb_data[1].unreadable = {20, DREG_64_YMM15H}
    /\ Len(gdb_data[1].reply) = 76
    /\ ~gdb_data[1].reply[21].defined
    /\ ~gdb_data[1].reply[76].defined
    /\ gdb_data[1].reply[58].defined

\* serve_replay has reached its target and opened the listening socket.
SocketOpened == serve_io.listen_port # 0

\* What the params pipe has been given when it was given one record after
\* the socket was opened, and was closed then.
OneRecordThenClosed ==
    /\ Len(serve_io.pipe) = 1
    /\ serve_io.pipe[1].port = serve_io.listen_port
    /\ Len(serve_io.pipe[1].host) = 16
    /\ serve_io.log = <<"open_socket", "write", "close">>
    /\ ~serve_io.pipe_open

(***************************************************************************)
(* C32: when serve_replay is given a debugger-params write pipe, one       *)
(* DebuggerParams record (exe_image, 16-byte host, port) is written to it  *)
(* over the whole call, after the listening socket is opened and before    *)
(* the first connection is awaited, and the pipe is then closed; nothing   *)
(* is written before, and nothing more on later connections.               *)
(***************************************************************************)
C32_OneParamsRecordThroughPipe ==
    flags.debugger_params_write_pipe =>
        /\ ~SocketOpened => serve_io.pipe = <<>> /\ serve_io.pipe_open
        /\ SocketOpened => OneRecordThenClosed

\* a connection's debug loop has ended in this step
DebugLoopEnds == gdb_pc = "debugging" /\ gdb_pc' \in {"awaiting", "exited"}

\* a client has been served before: activate_debugger has run
ServedBefore == debugger_restart_checkpoint # <<>>

(***************************************************************************)
(* C33: in serve_replay, when the debug loop of a connection ends, every   *)
(* breakpoint and watchpoint is removed before the next connection is      *)
(* awaited or serve_replay returns; another connection is awaited exactly  *)
(* when keep_listening is set: without it no connection follows the first, *)
(* with it serve_replay does not return from its connection loop.          *)
(***************************************************************************)
C33_ClearedBetweenConnections ==
    /\ [](gdb_pc \in {"awaiting", "exited"} => breakpoints = {} /\ watchpoints = {})
    /\ [][DebugLoopEnds =>
             /\ breakpoints' = {} /\ watchpoints' = {}
             /\ gdb_pc' = "awaiting" <=> keep_listening]_vars
    /\ [][~keep_listening /\ gdb_pc' = "debugging" /\ gdb_pc # "debugging" => ~ServedBefore]_vars
    /\ [][keep_listening /\ gdb_pc \in {"awaiting", "debugging"} => gdb_pc' # "exited"]_vars
    /\ [][gdb_pc = "exited" => gdb_pc' = "exited"]_vars

C33_Witness ==
    /\ gdb_pc = "awaiting"
    /\ ServedBefore
    /\ keep_listening
    /\ breakpoints = {} /\ watchpoints = {}
    /\ SocketOpened

\* the pins a mark holds beyond those of the explicit checkpoints of the table
RestartPins(p) ==
    explicit_pins[p] - Cardinality({id \in DOMAIN checkpoints :
                                       /\ checkpoints[id].is_explicit = "Explicit"
                                       /\ checkpoints[id].mark = p})

\* the mark debugger_restart_checkpoint holds a pin for, if it is Explicit
RestartPinnedAt(p) ==
    /\ debugger_restart_checkpoint # <<>>
    /\ debugger_restart_checkpoint[1].is_explicit = "Explicit"
    /\ debugger_restart_checkpoint[1].mark = p

(***************************************************************************)
(* C34: the timeline holds at most one explicit pin for                    *)
(* debugger_restart_checkpoint: one at its mark when it is Explicit, none  *)
(* when it is not, and none for a restart checkpoint that was replaced, so *)
(* the pins added and removed for it over activations and restarts stay    *)
(* balanced.                                                               *)
(***************************************************************************)
C34_OnePinForRestartCheckpoint ==
    \A p \in Positions : RestartPins(p) = IF RestartPinnedAt(p) THEN 1 ELSE 0

(***************************************************************************)
(* Claims about TaskSyscallState                                           *)
(***************************************************************************)
\* done_preparing has just run and enabled scratch.
ScratchSetUp ==
    /\ syscall_pc = "preparing"
    /\ syscall_pc' = "prepared"
    /\ scratch_enabled'

\* process_syscall_results has just run with scratch enabled.
ScratchResultsProcessed ==
    /\ syscall_pc = "exited"
    /\ syscall_pc' = "processed"
    /\ scratch_enabled

\* (a) no byte of any parameter's destination changes across the step.
DestsUntouched ==
    \A i \in 1..Len(param_list') : \A a \in DestRange(param_list'[i]) :
        task_mem'[a] = task_mem[a]

\* The sizes process_syscall_results evaluates at syscall exit.
ExitSizes ==
    CopyOutputsBack(CurSyscall, 1, ScratchData(CurSyscall),
        [task_mem |-> task_mem, actual_sizes |-> <<>>, panicked |-> FALSE]).actual_sizes

IsOutput(param) == param.mode \in {"Out", "InOut"}

\* The first eval-size bytes at dest, as addresses.
WrittenBack(i) == {param_list[i].dest + k : k \in 0..(ExitSizes[i] - 1)}

\* The byte of parameter i's scratch slot that belongs to address a of dest.
ScratchByteFor(i, a) == task_mem[param_list[i].scratch + (a - param_list[i].dest)]

RestoredPointerBytes ==
    UNION {param_list[j].ptr_in_memory..(param_list[j].ptr_in_memory + WordSize - 1) :
              j \in {x \in 1..Len(param_list) : param_list[x].ptr_in_memory # 0}}

\* No other output parameter is copied back over the destination of i.
SeparateOutput(i) ==
    \A j \in 1..Len(param_list) :
        j # i /\ IsOutput(param_list[j]) =>
            DestRange(param_list[i]) \cap DestRange(param_list[j]) = {}

\* Every destination lies outside the task's scratch mapping.
DestsOutsideScratch ==
    \A i \in 1..Len(param_list) :
        DestRange(param_list[i]) \cap (scratch_ptr..(scratch - 1)) = {}

C26_ScratchStaysInMapping ==
    /\ [](syscall_pc = "preparing" =>
             /\ scratch_ptr <= scratch
             /\ scratch <= scratch_ptr + usable_scratch_size)
    /\ [][syscall_pc = "preparing" => scratch' >= scratch]_vars

(***************************************************************************)
(* C26, amended: during preparation scratch never decreases and never lies *)
(* below the start of the task's scratch mapping, scratch_ptr <= scratch;  *)
(* the registrations can take it past scratch_ptr + usable_scratch_size.   *)
(***************************************************************************)
C26_ScratchNeverBelowMapping ==
    /\ [](syscall_pc = "preparing" => scratch_ptr <= scratch)
    /\ [][syscall_pc = "preparing" => scratch' >= scratch]_vars

\* Two registrations have taken scratch past the end of the mapping and
\* done_preparing has not run yet.
C26_Witness ==
    /\ syscall_pc = "preparing"
    /\ ~preparation_done
    /\ Len(param_list) = 2
    /\ scratch_ptr = SCRATCH_PTR
    /\ scratch > scratch_ptr + usable_scratch_size

\* The first done_preparing of the syscall has just returned.
DonePreparingReturned(sw) ==
    /\ DonePreparing(sw)
    /\ ~preparation_done
    /\ syscall_pc' = "prepared"

\* The bytes a mutator may rewrite in place when scratch is not enabled.
MutatedDests ==
    UNION {DestRange(param_list[i]) :
              i \in {j \in 1..Len(param_list) : param_list[j].maybe_mutator # None}}

(***************************************************************************)
(* C27: done_preparing called with AllowSwitch when the scratch allocated  *)
(* exceeds the usable scratch size returns PreventSwitch and records it,   *)
(* does not enable scratch and leaves the argument registers and the       *)
(* tracee memory as they were, but for what the mutators rewrite; when     *)
(* scratch cannot be used for another reason (the task has no scratch      *)
(* mapping for the parameters registered) it returns PreventSwitch too;    *)
(* otherwise it returns the switchability it was given.  The value         *)
(* returned is the one recorded in switchable.                             *)
(***************************************************************************)
C27_PreventSwitchWhenScratchUnusable ==
    [][\A sw \in {"AllowSwitch", "PreventSwitch"} :
          DonePreparingReturned(sw) =>
              LET overrun == /\ sw = "AllowSwitch"
                             /\ scratch_ptr # 0
                             /\ scratch > scratch_ptr + usable_scratch_size
                  unusable == scratch_ptr = 0 /\ param_list # <<>>
              IN /\ overrun =>
                        /\ switchable' = "PreventSwitch"
                        /\ ~scratch_enabled'
                        /\ regs' = regs
                        /\ \A a \in DOMAIN task_mem \ MutatedDests :
                               task_mem'[a] = task_mem[a]
                 /\ unusable => switchable' = "PreventSwitch" /\ ~scratch_enabled'
                 /\ ~overrun /\ ~unusable => switchable' = sw]_vars

\* process_syscall_results has just run and no assertion failed in it.
ResultsProcessed ==
    /\ syscall_pc = "exited"
    /\ syscall_pc' = "processed"

\* The sizes process_syscall_results gets from eval_param_size at syscall
\* exit, with scratch enabled or not.
EvaluatedSizes ==
    IF scratch_enabled THEN ExitSizes
    ELSE RecordAllRemote(RestoreMutated(CurSyscall, 1), 1,
             [actual_sizes |-> <<>>, recorded |-> recorded, panicked |-> FALSE]).actual_sizes

\* Parameter j takes its size from the source that parameter i takes it from.
SharesSource(i, j) ==
    LET a == param_list[i].num_bytes
        b == param_list[j].num_bytes
    IN /\ (a.mem_ptr # 0 /\ b.mem_ptr = a.mem_ptr) \/ (a.from_syscall /\ b.from_syscall)
       /\ a.read_size = b.read_size

\* What the parameters registered before i have taken from its source.
RECURSIVE ConsumedBefore(_, _)
ConsumedBefore(i, j) ==
    IF j >= i THEN 0
    ELSE (IF SharesSource(i, j) THEN EvaluatedSizes[j] ELSE 0) + ConsumedBefore(i, j + 1)

\* The sizes that bound parameter i with what earlier parameters consumed
\* taken from those in takes_from: its incoming size ("incoming"), the value
\* of its size cell in memory ("source"), the syscall result counted as 0
\* when negative ("source").
SizeBounds(i, takes_from) ==
    LET num_bytes == param_list[i].num_bytes
        less(kind) == IF kind \in takes_from THEN ConsumedBefore(i, 1) ELSE 0
    IN {num_bytes.incoming_size - less("incoming")}
       \cup (IF num_bytes.mem_ptr # 0
             THEN {read_val_mem(task_mem, num_bytes.mem_ptr, num_bytes.read_size)
                   - less("source")}
             ELSE {})
       \cup (IF num_bytes.from_syscall
             THEN {(IF regs.syscall_result > 0 THEN regs.syscall_result ELSE 0)
                   - less("source")}
             ELSE {})

SmallestOf(S) == CHOOSE x \in S : \A y \in S : x <= y

\* The second half of C28: parameters that share a source take from it in
\* the order they were registered, none more than its incoming size, and
\* together no more than the source holds.
SharedSourceDistributed ==
    \A i \in 1..Len(param_list) :
        /\ EvaluatedSizes[i] <= param_list[i].num_bytes.incoming_size
        /\ \A s \in SizeBounds(i, {}) \ {param_list[i].num_bytes.incoming_size} :
               ConsumedBefore(i, 1) + EvaluatedSizes[i] <= s
        /\ \A j \in 1..(i - 1) :
               SharesSource(i, j) /\ EvaluatedSizes[i] > 0 =>
                   EvaluatedSizes[j] = param_list[j].num_bytes.incoming_size

(***************************************************************************)
(* C28, as stated: eval returns min(incoming_size, the value of the size   *)
(* cell in memory if any, the syscall result if the size is derived from   *)
(* it) MINUS already_consumed, floored at 0, a negative result counting as *)
(* 0; parameters sharing a source consume it in registration order, each   *)
(* at most its incoming size, their sizes summing to at most the source.   *)
(* The code takes already_consumed from the source only, not from the      *)
(* incoming size: of two 8-byte parameters sized by a result of 12, the    *)
(* second gets 4, not min(8, 12) - 8 = 0.                                  *)
(***************************************************************************)
C28_EvalIsMinLessConsumed ==
    [][ResultsProcessed =>
          /\ \A i \in 1..Len(param_list) :
                 LET s == SmallestOf(SizeBounds(i, {})) - ConsumedBefore(i, 1)
                 IN EvaluatedSizes[i] = IF s > 0 THEN s ELSE 0
          /\ SharedSourceDistributed]_vars

(***************************************************************************)
(* C28, amended: eval returns min(incoming_size, the value of the size     *)
(* cell in memory LESS already_consumed if there is one, the syscall       *)
(* result LESS already_consumed if the size is derived from it), a         *)
(* negative result counting as 0; parameters sharing a source consume it   *)
(* in registration order, each at most its incoming size, their sizes      *)
(* summing to at most the source.                                          *)
(***************************************************************************)
C28_EvalIsMinOfIncomingAndRest ==
    [][ResultsProcessed =>
          /\ \A i \in 1..Len(param_list) :
                 EvaluatedSizes[i] = SmallestOf(SizeBounds(i, {"source"}))
          /\ SharedSourceDistributed]_vars

\* Two 8-byte parameters sized by the syscall result were processed after
\* a result of 12: the outputs recorded are 8 and 4 bytes long.
C28_Witness ==
    /\ syscall_pc = "processed"
    /\ regs.syscall_result = 12
    /\ Len(param_list) = 2
    /\ \A i \in 1..2 : /\ param_list[i].num_bytes.from_syscall
                        /\ param_list[i].num_bytes.incoming_size = 8
    /\ Len(recorded) = 2
    /\ Len(recorded[1].data) = 8
    /\ Len(recorded[2].data) = 4

(***************************************************************************)
(* C29: abort_syscall_results called after process_syscall_results on the  *)
(* same state completes without a failed assertion and leaves the tracee   *)
(* memory and the argument registers as process_syscall_results left       *)
(* them, with scratch enabled and with scratch disabled and mutated        *)
(* parameters saved in saved_data.                                         *)
(***************************************************************************)
C29_AbortAfterProcessIsNoOp ==
    [][syscall_pc = "processed" /\ AbortSyscallResults =>
          /\ syscall_pc' = "aborted"
          /\ task_mem' = task_mem
          /\ regs' = regs]_vars

(***************************************************************************)
(* C30: a reg_parameter or mem_ptr_parameter registration made while       *)
(* preparation_done is true returns a null pointer and leaves param_list,  *)
(* the scratch cursor and the tracee's memory and registers unchanged; a   *)
(* second done_preparing returns the switchability already recorded        *)
(* without repeating the scratch setup or running the mutators again.      *)
(***************************************************************************)
C30_IgnoredOncePrepared ==
    /\ [][preparation_done /\ syscall_pc = "prepared" /\ syscall_pc' = "prepared" =>
             /\ UNCHANGED <<param_list, scratch, task_mem, regs, saved_data,
                            scratch_enabled, switchable, write_back, recorded>>
             /\ returned' \in {0, returned}]_vars
    /\ [](preparation_done /\ syscall_pc = "prepared" =>
             /\ \A call \in RegParameterCalls :
                    reg_parameter_with_size(CurSyscall, call.arg, call.param_size,
                                            call.mode, call.mutator).returned = 0
             /\ \A call \in MemPtrParameterCalls :
                    mem_ptr_parameter_with_size(CurSyscall, call.addr_of_buf_ptr,
                                                call.param_size, call.mode, None).returned = 0
             /\ \A sw \in {"AllowSwitch", "PreventSwitch"} :
                    done_preparing(CurSyscall, sw).switchable = switchable)

\* Both parameters were registered, which returned their addresses, the
\* preparation was done with scratch, and a registration made after it
\* returned null.
C30_Witness ==
    /\ syscall_pc = "prepared"
    /\ preparation_done
    /\ scratch_enabled
    /\ Len(param_list) = MaxParams
    /\ \A i \in 1..Len(param_list) : param_list[i].dest # 0
    /\ returned = 0

\* The registered parameters whose [dest, dest + incoming_size) holds ptr.
Holders(ptr) ==
    {i \in 1..Len(param_list) :
        /\ param_list[i].dest <= ptr
        /\ ptr < param_list[i].dest + param_list[i].num_bytes.incoming_size}

\* The addresses done_preparing_internal relocates: where a pointer to a
\* parameter is kept, and where the size of a parameter is kept.
RelocatedPointers ==
    ({param_list[i].ptr_in_memory : i \in 1..Len(param_list)}
        \cup {param_list[i].num_bytes.mem_ptr : i \in 1..Len(param_list)}) \ {0}

\* relocate_pointer_to_scratch on every address below the scratch mapping:
\* the result for a single holder, a failed assertion otherwise.
RelocateFindsTheHolder ==
    syscall_pc = "preparing" =>
        \A ptr \in 1..(SCRATCH_PTR - 1) :
            /\ relocate_asserts(param_list, ptr) <=> Cardinality(Holders(ptr)) = 1
            /\ \A i \in Holders(ptr) :
                  Holders(ptr) = {i} =>
                      relocate_pointer_to_scratch(param_list, ptr)
                          = param_list[i].scratch + (ptr - param_list[i].dest)

\* done_preparing that goes on to set up scratch fails exactly when one of
\* the addresses it relocates has no holder or several.
SetUpFailsWithoutOneHolder ==
    syscall_pc = "preparing" /\ preparation_done' /\ scratch_enabled' =>
        (syscall_pc' = "panicked"
            <=> \E ptr \in RelocatedPointers : Cardinality(Holders(ptr)) # 1)

\* done_preparing that has set up scratch left the tracee's memory below
\* the scratch mapping as it was, and the place where it wrote the address
\* of a parameter that is pointed to from memory is in the scratch allocated.
SetUpWritesScratchOnly ==
    ScratchSetUp =>
        /\ \A a \in DOMAIN task_mem : a < scratch_ptr => task_mem'[a] = task_mem[a]
        /\ \A i \in 1..Len(param_list) :
              param_list[i].ptr_in_memory # 0 =>
                 \E j \in Holders(param_list[i].ptr_in_memory) :
                    LET p == param_list[j].scratch
                                + (param_list[i].ptr_in_memory - param_list[j].dest)
                    IN p \in scratch_ptr..(scratch - 1)

(***************************************************************************)
(* C31: relocate_pointer_to_scratch(ptr) returns param.scratch + (ptr -    *)
(* param.dest) for the one registered parameter whose [dest, dest +        *)
(* incoming_size) holds ptr and fails an assertion when none or several    *)
(* hold it; so done_preparing with scratch enabled rewrites an in-memory   *)
(* pointer only at its copy inside a scratch slot, never in the tracee's   *)
(* memory outside scratch.                                                 *)
(***************************************************************************)
C31_PointersRewrittenInScratchOnly ==
    /\ []RelocateFindsTheHolder
    /\ [][SetUpFailsWithoutOneHolder]_vars
    /\ [][SetUpWritesScratchOnly]_vars

\* the parameters that were given a scratch slot at registration
SlotHolders == {i \in 1..Len(param_list) : param_list[i].mode # "InOutNoScratch"}

\* one past the last byte of the slot of parameter i
SlotEnd(i) == param_list[i].scratch + param_list[i].num_bytes.incoming_size

(***************************************************************************)
(* C37: scratch is enabled only for a task with a scratch buffer, with     *)
(* AllowSwitch recorded, at least one parameter registered and the scratch *)
(* cursor no further than scratch_ptr + usable_scratch_size; so the slot   *)
(* [scratch, scratch + incoming_size) of every parameter that was given    *)
(* one lies in the usable scratch area, and the slots follow each other in *)
(* registration order without overlapping.                                 *)
(***************************************************************************)
C37_ScratchEnabledMeansSlotsFit ==
    scratch_enabled =>
        /\ preparation_done
        /\ scratch_ptr # 0
        /\ switchable = "AllowSwitch"
        /\ Len(param_list) >= 1
        /\ scratch <= scratch_ptr + usable_scratch_size
        /\ \A i \in SlotHolders :
               /\ scratch_ptr <= param_list[i].scratch
               /\ SlotEnd(i) <= scratch_ptr + usable_scratch_size
               /\ SlotEnd(i) <= scratch
        /\ \A i, j \in SlotHolders : i < j => SlotEnd(i) <= param_list[j].scratch

\* C37 witness: two parameters of 16 and 8 bytes fill the usable scratch
\* area to its last byte, and scratch is enabled.
C37_Witness ==
    /\ scratch_enabled
    /\ syscall_pc = "prepared"
    /\ SlotHolders = {1, 2}
    /\ param_list[1].scratch = scratch_ptr
    /\ param_list[2].scratch = SlotEnd(1)
    /\ SlotEnd(2) = scratch_ptr + usable_scratch_size

\* The first eval-size bytes of the scratch slot of parameter i.
SlotBytes(i) == read_mem(task_mem, param_list[i].scratch, ExitSizes[i])

\* Step 2 of process_syscall_results puts a pointer in memory back.
PointerRestored == \E j \in 1..Len(param_list) : param_list[j].ptr_in_memory # 0

\* The records expected of process_syscall_results for the parameters from
\* i on: none for In, the bytes at dest for InOutNoScratch, and for Out and
\* InOut the bytes of the slot, or with from_dest the bytes at dest.
RECURSIVE ExpectedRecords(_, _)
ExpectedRecords(i, from_dest) ==
    IF i > Len(param_list) THEN <<>>
    ELSE LET at_dest == read_mem(task_mem', param_list[i].dest, ExitSizes[i])
         IN (IF IsOutput(param_list[i])
             THEN <<[addr |-> param_list[i].dest,
                     data |-> IF from_dest THEN at_dest ELSE SlotBytes(i)]>>
             ELSE IF param_list[i].mode = "InOutNoScratch"
             THEN <<[addr |-> param_list[i].dest, data |-> at_dest]>>
             ELSE <<>>)
            \o ExpectedRecords(i + 1, from_dest)

\* Every evaluated size is within incoming_size, and the slice taken for a
\* parameter lies in the scratch bytes read and in its own slot.
SlicesWithinOwnSlot ==
    \A i \in 1..Len(param_list) :
        /\ ExitSizes[i] <= param_list[i].num_bytes.incoming_size
        /\ i \in SlotHolders =>
               /\ scratch_ptr <= param_list[i].scratch
               /\ param_list[i].scratch + ExitSizes[i] <= SlotEnd(i)
               /\ param_list[i].scratch - scratch_ptr + ExitSizes[i]
                      <= Len(ScratchData(CurSyscall))

\* Memory changes only where an Out or InOut parameter is copied back or a
\* pointer is put back: nothing is copied for In and InOutNoScratch.
OnlyOutputsWrittenBack ==
    \A a \in DOMAIN task_mem :
        task_mem'[a] # task_mem[a] =>
            \/ a \in RestoredPointerBytes
            \/ \E i \in 1..Len(param_list) : IsOutput(param_list[i]) /\ a \in WrittenBack(i)

(***************************************************************************)
(* C38, as stated: in process_syscall_results with scratch enabled, every  *)
(* evaluated size is at most incoming_size, the bytes copied back to dest  *)
(* and the bytes recorded are the first eval-size bytes of the parameter's *)
(* own scratch slot, as many recorded as written back; In parameters are   *)
(* neither written back nor recorded, InOutNoScratch parameters are        *)
(* recorded from dest without a copy.                                      *)
(***************************************************************************)
C38_RecordedFromOwnSlot ==
    [][ScratchResultsProcessed =>
          /\ SlicesWithinOwnSlot
          /\ OnlyOutputsWrittenBack
          /\ recorded' = recorded \o ExpectedRecords(1, FALSE)]_vars

(***************************************************************************)
(* C38, amended: as above, but when step 2 has put a pointer in memory     *)
(* back, the bytes recorded for an Out or InOut parameter are the first    *)
(* eval-size bytes found at its dest after the copy-back and the pointer   *)
(* restoration, not those of its scratch slot.                             *)
(***************************************************************************)
C38_RecordedFromSlotOrDest ==
    [][ScratchResultsProcessed =>
          /\ SlicesWithinOwnSlot
          /\ OnlyOutputsWrittenBack
          /\ recorded' = recorded \o ExpectedRecords(1, PointerRestored)]_vars

\* C38 witness: results were processed with scratch enabled for an In
\* parameter and an output parameter reached through a pointer in memory,
\* and the kernel's bytes were recorded for the output alone.
C38_Witness ==
    /\ syscall_pc = "processed"
    /\ scratch_enabled
    /\ regs.syscall_result > 0
    /\ Len(param_list) = 2
    /\ param_list[1].mode = "In"
    /\ param_list[2].ptr_in_memory # 0
    /\ Len(recorded) = 1
    /\ recorded[1].addr = param_list[2].dest
    /\ Len(recorded[1].data) = regs.syscall_result

\* abort_syscall_results has just run on a prepared syscall that never ran.
PreparationAborted ==
    /\ syscall_pc = "prepared"
    /\ syscall_pc' = "aborted"

\* the parameters whose mutator has rewritten their bytes
Mutated == {i \in 1..Len(param_list) : param_list[i].maybe_mutator # None}

\* where the bytes saved for the mutated parameter i start in saved_data
RECURSIVE SavedBefore(_)
SavedBefore(i) ==
    IF i <= 1 THEN 0
    ELSE SavedBefore(i - 1)
         + (IF (i - 1) \in Mutated THEN param_list[i - 1].num_bytes.incoming_size ELSE 0)

\* the bytes saved for the mutated parameter i
SavedFor(i) ==
    SubSeq(saved_data, SavedBefore(i) + 1,
           SavedBefore(i) + param_list[i].num_bytes.incoming_size)

(***************************************************************************)
(* C39: abort_syscall_results after done_preparing undoes the preparation: *)
(* the argument registers hold their syscall-entry values again, dest in   *)
(* every register that was redirected; every registered pointer in memory  *)
(* holds its original value, the parameter's dest; with scratch disabled   *)
(* the bytes at the dest of every mutated parameter are the ones saved for *)
(* it in saved_data, taken in registration order, which is used up; and    *)
(* nothing is copied back to an output buffer or recorded.                 *)
(***************************************************************************)
C39_AbortUndoesPreparation ==
    [][PreparationAborted =>
          /\ regs'.args = syscall_entry_registers.args
          /\ \A i \in 1..Len(param_list) :
                 /\ param_list[i].ptr_in_reg # 0 =>
                        regs'.args[param_list[i].ptr_in_reg] = param_list[i].dest
                 /\ param_list[i].ptr_in_memory # 0 =>
                        get_remote_ptr(task_mem', param_list[i].ptr_in_memory)
                           = param_list[i].dest
          /\ ~scratch_enabled =>
                 /\ \A i \in Mutated :
                        read_mem(task_mem', param_list[i].dest,
                                 param_list[i].num_bytes.incoming_size) = SavedFor(i)
                 /\ saved_data' = <<>>
                 /\ \A a \in DOMAIN task_mem \ MutatedDests : task_mem'[a] = task_mem[a]
          /\ scratch_enabled =>
                 \A a \in DOMAIN task_mem \ RestoredPointerBytes : task_mem'[a] = task_mem[a]
          /\ recorded' = recorded /\ recorded = <<>>]_vars

\* rec_prepare_syscall has just prepared a prctl with this option.
PrctlPrepared(option) ==
    /\ syscall_pc # "prepared"
    /\ syscall_pc' = "prepared"
    /\ syscall_entry_registers'.args[1] = option

\* the second argument of the prctl just prepared
PrctlArg2 == syscall_entry_registers'.args[2]

\* The kernel is handed the option -1 and the result is replaced.
Suppressed(result) ==
    /\ regs'.args[1] = 0 - 1
    /\ should_emulate_result'
    /\ emulated_result' = result

====
